---- MODULE Spec2Model ----
(***************************************************************************)
(* Logbook API: scribes (accounts) and entries, HTTP Basic authentication, *)
(* ownership and visibility checks.  Every request handler is a pure       *)
(* operator from (store, request, clock, salt) to (store, response); the   *)
(* actions apply the handlers to the store.                                *)
(***************************************************************************)
EXTENDS Integers, Sequences, FiniteSets, TLC

(* ------------------------------ bounds --------------------------------- *)

\* largest scribe row id the model allocates
MaxScribeId == 2

\* largest entry row id the model allocates
MaxEntryId == 2

\* number of distinct salts generate_password_hash may draw
NumSalts == 1

\* latest reading of the clock in the timed specification
MaxClock == 1

\* how many times in a row a request is repeated
MaxRepeat == 3

\* number of workers handling requests at the same time
NumWorkers == 2

(* --------------------------- request values ---------------------------- *)

\* JSON null / SQL NULL
NULL == "<null>"

\* a key that is not in the JSON body
ABSENT == "<absent>"

\* no Authorization header
NoAuth == [username |-> ABSENT, password |-> ABSENT]

Usernames == {"alice", "bob"}

Emails == {"a@x.com", "b@x.com"}

Passwords == {"pw1", "pw2"}

Bios == {"bio"}

Contents == {"c1", "c2"}

Salts == 1..NumSalts

Credentials == {NoAuth} \cup [username : Usernames, password : Passwords]

ScribeIds == 1..MaxScribeId

EntryIds == 1..MaxEntryId

\* the <string:entry_id> path segment
EntryIdStrings == {ToString(i) : i \in EntryIds}

\* scribes, entries: the two tables, row id -> row; now: the clock;
\* last_password: for each scribe, the password most recently set for it
\* (history, read by no handler); requests: the requests being handled
\* statement by statement, one per worker; foreign_keys: whether the store
\* enforces the foreign key of entries.scribe_id; session: db.session between
\* requests, held when an application context stays open around them, with the
\* entry rows it holds modified and not committed
VARIABLES scribes, entries, now, last_password, requests, foreign_keys, session

vars == <<scribes, entries, now, last_password, requests, foreign_keys, session>>

(* ------------------------------ models.py ------------------------------ *)

Max(S) == CHOOSE m \in S : \A x \in S : x <= m

\* Integer primary key: the store assigns the largest id in use plus one
NextId(table) == IF DOMAIN table = {} THEN 1 ELSE Max(DOMAIN table) + 1

Without(table, id) == [i \in DOMAIN table \ {id} |-> table[i]]

\* werkzeug generate_password_hash: the salt is stored with the digest
generate_password_hash(password, salt) ==
    [method |-> "pbkdf2:sha256", salt |-> salt, digest |-> <<salt, password>>]

check_password_hash(pwhash, password) ==
    pwhash.digest = <<pwhash.salt, password>>

set_password(scribe, password, salt) ==
    [scribe EXCEPT !.password_hash = generate_password_hash(password, salt)]

check_password(scribe, password) ==
    check_password_hash(scribe.password_hash, password)

\* datetime.isoformat() + "Z"
IsoZ(t) == ToString(t) \o "Z"

\* mutant of Scribe_to_jsonapi: the stored hash is serialized with the profile
Scribe_to_jsonapi_with_hash(db, id) ==
    [type |-> "scribes", id |-> ToString(id),
     attributes |-> [username |-> db.scribes[id].username,
                     email |-> db.scribes[id].email,
                     bio |-> db.scribes[id].bio,
                     passwordHash |-> db.scribes[id].password_hash,
                     createdAt |-> IsoZ(db.scribes[id].created_at),
                     updatedAt |-> IsoZ(db.scribes[id].updated_at)]]

Scribe_to_jsonapi(db, id) ==
    [type |-> "scribes", id |-> ToString(id),
     attributes |-> [username |-> db.scribes[id].username,
                     email |-> db.scribes[id].email,
                     bio |-> db.scribes[id].bio,
                     createdAt |-> IsoZ(db.scribes[id].created_at),
                     updatedAt |-> IsoZ(db.scribes[id].updated_at)]]

Entry_to_jsonapi(db, id) ==
    [type |-> "entries", id |-> ToString(id),
     attributes |-> [content |-> db.entries[id].content,
                     visibility |-> db.entries[id].visibility,
                     createdAt |-> IsoZ(db.entries[id].created_at),
                     updatedAt |-> IsoZ(db.entries[id].updated_at),
                     scribeId |-> db.entries[id].scribe_id,
                     scribeUsername |-> db.scribes[db.entries[id].scribe_id].username]]

(* ------------------------------ responses ------------------------------ *)

ErrorResponse(status, title, detail) ==
    [status |-> status, kind |-> "errors", title |-> title, detail |-> detail,
     data |-> <<>>]

DataResponse(status, resource) ==
    [status |-> status, kind |-> "data", title |-> "", detail |-> "",
     data |-> <<resource>>]

ListResponse(status, resources) ==
    [status |-> status, kind |-> "list", title |-> "", detail |-> "",
     data |-> resources]

EmptyResponse(status) ==
    [status |-> status, kind |-> "empty", title |-> "", detail |-> "", data |-> <<>>]

\* what a handler yields: the store after the request and the response
Result(db, response) == [db |-> db, resp |-> response]

(* ------------------------------- auth.py ------------------------------- *)

\* Query.first(): a row id, 0 for None
First(ids) == IF ids = {} THEN 0 ELSE CHOOSE i \in ids : \A j \in ids : i <= j

ByUsername(db, username) ==
    First({i \in DOMAIN db.scribes : db.scribes[i].username = username})

ByEmail(db, email) ==
    First({i \in DOMAIN db.scribes : db.scribes[i].email = email})

\* mutant of Verified: the password is not compared
VerifiedByUsername(db, auth) == ByUsername(db, auth.username)

\* the scribe the credentials verify as, 0 for none
Verified(db, auth) ==
    LET scribe == ByUsername(db, auth.username)
    IN  IF scribe = 0 THEN 0
        ELSE IF ~check_password(db.scribes[scribe], auth.password) THEN 0
        ELSE scribe

\* mutant of require_auth: an unknown username gets a 401 of its own
require_auth_names_unknown_username(db, auth) ==
    IF auth = NoAuth
    THEN [scribe |-> 0,
          resp |-> ErrorResponse(401, "Authentication Required",
                    "You must provide valid credentials to access this resource")]
    ELSE IF ByUsername(db, auth.username) = 0
    THEN [scribe |-> 0,
          resp |-> ErrorResponse(401, "Unknown Username",
                    "No scribe has the username provided")]
    ELSE IF Verified(db, auth) = 0
    THEN [scribe |-> 0,
          resp |-> ErrorResponse(401, "Invalid Credentials",
                    "The username or password provided is incorrect")]
    ELSE [scribe |-> Verified(db, auth), resp |-> EmptyResponse(0)]

\* [scribe |-> the authenticated scribe or 0, resp |-> the 401 when rejected]
require_auth(db, auth) ==
    IF auth = NoAuth
    THEN [scribe |-> 0,
          resp |-> ErrorResponse(401, "Authentication Required",
                    "You must provide valid credentials to access this resource")]
    ELSE IF Verified(db, auth) = 0
    THEN [scribe |-> 0,
          resp |-> ErrorResponse(401, "Invalid Credentials",
                    "The username or password provided is incorrect")]
    ELSE [scribe |-> Verified(db, auth), resp |-> EmptyResponse(0)]

\* the authenticated scribe, 0 (None) without credentials or with invalid ones
optional_auth(db, auth) ==
    IF auth = NoAuth THEN 0 ELSE Verified(db, auth)

(* ----------------------------- api/auth.py ----------------------------- *)

\* mutant of JoinComma: only the first name is given
JoinFirstOnly(names) == IF Len(names) = 0 THEN "" ELSE names[1]

RECURSIVE JoinComma(_)
JoinComma(names) ==
    IF Len(names) = 0 THEN ""
    ELSE IF Len(names) = 1 THEN names[1]
    ELSE names[1] \o ", " \o JoinComma(Tail(names))

\* "not data": the body is missing or an empty object
EmptyBody(data) == \A k \in DOMAIN data : data[k] = ABSENT

InvalidRequest ==
    ErrorResponse(400, "Invalid Request", "Request body must be valid JSON")

\* mutant of ScribeIntegrityError: the table has no constraint
NoIntegrityError(table) == FALSE

\* mutant of ScribeIntegrityError: the email column is not unique
UsernameIntegrityError(table) ==
    \/ \E i \in DOMAIN table : table[i].username = NULL \/ table[i].email = NULL
    \/ \E i, j \in DOMAIN table : i # j /\ table[i].username = table[j].username

\* the unique and NOT NULL constraints of the scribes table, checked at commit
ScribeIntegrityError(table) ==
    \/ \E i \in DOMAIN table : table[i].username = NULL \/ table[i].email = NULL
    \/ \E i, j \in DOMAIN table :
          i # j /\ (table[i].username = table[j].username
                    \/ table[i].email = table[j].email)

\* mutant of EnlistConflict: the email is looked at first
EnlistConflictEmailFirst(db, data) ==
    IF ByEmail(db, data.email) # 0
    THEN ErrorResponse(409, "Email Already Exists",
             "The email '" \o data.email \o "' is already registered")
    ELSE IF ByUsername(db, data.username) # 0
    THEN ErrorResponse(409, "Username Already Exists",
             "The username '" \o data.username \o "' is already taken")
    ELSE ErrorResponse(409, "Conflict",
             "A scribe with this username or email already exists")

\* after the rollback: re-query to find the field that collided
EnlistConflict(db, data) ==
    IF ByUsername(db, data.username) # 0
    THEN ErrorResponse(409, "Username Already Exists",
             "The username '" \o data.username \o "' is already taken")
    ELSE IF ByEmail(db, data.email) # 0
    THEN ErrorResponse(409, "Email Already Exists",
             "The email '" \o data.email \o "' is already registered")
    ELSE ErrorResponse(409, "Conflict",
             "A scribe with this username or email already exists")

enlist(db, data, t, salt) ==
    IF EmptyBody(data) THEN Result(db, InvalidRequest)
    ELSE LET missing_fields ==
                 SelectSeq(<<"username", "email", "password">>,
                           LAMBDA f : data[f] = ABSENT)
    IN  IF Len(missing_fields) > 0
        THEN Result(db, ErrorResponse(400, "Missing Required Fields",
                 "The following fields are required: " \o JoinComma(missing_fields)))
        ELSE LET id == NextId(db.scribes)
                 scribe == set_password(
                     [username |-> data.username, email |-> data.email,
                      password_hash |-> NULL,
                      bio |-> IF data.bio # ABSENT THEN data.bio ELSE NULL,
                      created_at |-> t, updated_at |-> t],
                     data.password, salt)
                 added == [db EXCEPT !.scribes =
                              [i \in DOMAIN db.scribes \cup {id} |->
                                  IF i = id THEN scribe ELSE db.scribes[i]]]
        IN  IF ScribeIntegrityError(added.scribes)
            THEN Result(db, EnlistConflict(db, data))
            ELSE Result(added, DataResponse(201, Scribe_to_jsonapi(added, id)))

unlock(db, auth) ==
    IF require_auth(db, auth).scribe = 0 THEN Result(db, require_auth(db, auth).resp)
    ELSE Result(db, DataResponse(200,
                  Scribe_to_jsonapi(db, require_auth(db, auth).scribe)))

\* mutant of lock: the caller's password is revoked
lock_revokes_password(db, auth) ==
    IF require_auth(db, auth).scribe = 0 THEN Result(db, require_auth(db, auth).resp)
    ELSE Result([db EXCEPT !.scribes[require_auth(db, auth).scribe].password_hash =
                    generate_password_hash("<locked>", 1)],
                EmptyResponse(204))

lock(db, auth) ==
    IF require_auth(db, auth).scribe = 0 THEN Result(db, require_auth(db, auth).resp)
    ELSE Result(db, EmptyResponse(204))

(* ----------------------------- api/users.py ---------------------------- *)

ScribeNotFound(scribe_id) ==
    ErrorResponse(404, "Scribe Not Found",
                  "No scribe exists with ID " \o ToString(scribe_id))

Forbidden(detail) == ErrorResponse(403, "Forbidden", detail)

get_scribe(db, scribe_id) ==
    IF scribe_id \notin DOMAIN db.scribes
    THEN Result(db, ScribeNotFound(scribe_id))
    ELSE Result(db, DataResponse(200, Scribe_to_jsonapi(db, scribe_id)))

\* mutant of Stamp: the write stamps created_at as well
StampCreatedToo(old, new, t) ==
    IF new = old THEN old ELSE [new EXCEPT !.updated_at = t, !.created_at = t]

\* onupdate=datetime.utcnow: the flush writes the row, and stamps it, only
\* when some column has a new value
Stamp(old, new, t) ==
    IF new = old THEN old ELSE [new EXCEPT !.updated_at = t]

\* mutant of rollback: the new password hashes survive the rollback
rollback_keeps_password(db, pending) ==
    [db EXCEPT !.scribes =
        [i \in DOMAIN db.scribes |->
            [db.scribes[i] EXCEPT !.password_hash = pending.scribes[i].password_hash]]]

\* mutant of rollback: the new bios survive the rollback
rollback_keeps_bio(db, pending) ==
    [db EXCEPT !.scribes =
        [i \in DOMAIN db.scribes |->
            [db.scribes[i] EXCEPT !.bio = pending.scribes[i].bio]]]

\* db.session.rollback(): the store as it was before the request's assignments
rollback(db, pending) == db

\* mutant of ScribeChanges: a body without a bio clears the bio
ScribeChangesClearingBio(scribe, data, salt) ==
    LET e == IF data.email # ABSENT THEN [scribe EXCEPT !.email = data.email]
             ELSE scribe
        b == [e EXCEPT !.bio = IF data.bio # ABSENT THEN data.bio ELSE NULL]
    IN  IF data.password # ABSENT THEN set_password(b, data.password, salt) ELSE b

\* the assignments update_scribe makes to the loaded row before it commits
ScribeChanges(scribe, data, salt) ==
    LET e == IF data.email # ABSENT THEN [scribe EXCEPT !.email = data.email]
             ELSE scribe
        b == IF data.bio # ABSENT THEN [e EXCEPT !.bio = data.bio] ELSE e
    IN  IF data.password # ABSENT THEN set_password(b, data.password, salt) ELSE b

update_scribe(db, auth, scribe_id, data, t, salt) ==
    LET current_scribe == require_auth(db, auth).scribe
    IN  IF current_scribe = 0 THEN Result(db, require_auth(db, auth).resp)
        ELSE IF scribe_id \notin DOMAIN db.scribes
        THEN Result(db, ScribeNotFound(scribe_id))
        ELSE IF current_scribe # scribe_id
        THEN Result(db, Forbidden("You can only update your own profile"))
        ELSE IF EmptyBody(data) THEN Result(db, InvalidRequest)
        ELSE LET scribe == Stamp(db.scribes[scribe_id],
                                 ScribeChanges(db.scribes[scribe_id], data, salt), t)
                 updated == [db EXCEPT !.scribes[scribe_id] = scribe]
        IN  IF ScribeIntegrityError(updated.scribes)
            THEN LET kept == rollback(db, updated)
                     existing_email ==
                         ByEmail(kept, IF data.email = ABSENT THEN NULL ELSE data.email)
                 IN  IF existing_email # 0 /\ existing_email # scribe_id
                     THEN Result(kept, ErrorResponse(409, "Email Already Exists",
                              "The email '" \o data.email
                                  \o "' is already registered to another scribe"))
                     ELSE Result(kept, ErrorResponse(409, "Conflict",
                              "Unable to update profile due to a data conflict"))
            ELSE Result(updated, DataResponse(200, Scribe_to_jsonapi(updated, scribe_id)))

\* mutant of CascadeDelete: the scribe's row goes, its entries stay
DeleteWithoutCascade(db, scribe_id) ==
    [scribes |-> Without(db.scribes, scribe_id), entries |-> db.entries]

\* mutant of CascadeDelete: the entries table is emptied with the scribe
DeleteEveryEntry(db, scribe_id) ==
    [scribes |-> Without(db.scribes, scribe_id), entries |-> <<>>]

\* mutant of CascadeDelete: the scribe's row is kept, emptied of its entries
DeleteEntriesOnly(db, scribe_id) ==
    [scribes |-> db.scribes,
     entries |-> [i \in {j \in DOMAIN db.entries :
                            db.entries[j].scribe_id # scribe_id} |-> db.entries[i]]]

\* cascade="all, delete-orphan": the scribe's entries are deleted with it
CascadeDelete(db, scribe_id) ==
    [scribes |-> Without(db.scribes, scribe_id),
     entries |-> [i \in {j \in DOMAIN db.entries :
                            db.entries[j].scribe_id # scribe_id} |-> db.entries[i]]]

\* mutant of delete_scribe: the ownership check is missing
delete_scribe_any_caller(db, auth, scribe_id) ==
    LET current_scribe == require_auth(db, auth).scribe
    IN  IF current_scribe = 0 THEN Result(db, require_auth(db, auth).resp)
        ELSE IF scribe_id \notin DOMAIN db.scribes
        THEN Result(db, ScribeNotFound(scribe_id))
        ELSE Result(CascadeDelete(db, scribe_id), EmptyResponse(204))

delete_scribe(db, auth, scribe_id) ==
    LET current_scribe == require_auth(db, auth).scribe
    IN  IF current_scribe = 0 THEN Result(db, require_auth(db, auth).resp)
        ELSE IF scribe_id \notin DOMAIN db.scribes
        THEN Result(db, ScribeNotFound(scribe_id))
        ELSE IF current_scribe # scribe_id
        THEN Result(db, Forbidden("You can only delete your own account"))
        ELSE Result(CascadeDelete(db, scribe_id), EmptyResponse(204))

(* ----------------------------- api/posts.py ---------------------------- *)

EntryNotFound(entry_id) ==
    ErrorResponse(404, "Entry Not Found", "No entry exists with ID " \o entry_id)

InvalidVisibility ==
    ErrorResponse(400, "Invalid Visibility",
                  "Visibility must be either 'public' or 'private'")

\* db.session.get(Entry, entry_id): the path segment compared with the integer
\* key; a row id, 0 for None
GetEntry(db, entry_id) ==
    First({i \in DOMAIN db.entries : ToString(i) = entry_id})

\* mutant of create_entry: the new entry is given to the first scribe of the
\* table, not to the caller
create_entry_for_first_scribe(db, auth, data, t) ==
    LET current_scribe == require_auth(db, auth).scribe
        visibility == IF data.visibility = ABSENT THEN "public" ELSE data.visibility
    IN  IF current_scribe = 0 THEN Result(db, require_auth(db, auth).resp)
        ELSE IF EmptyBody(data) THEN Result(db, InvalidRequest)
        ELSE IF data.content = ABSENT
        THEN Result(db, ErrorResponse(400, "Missing Required Field",
                                      "The content field is required"))
        ELSE IF visibility \notin {"public", "private"}
        THEN Result(db, InvalidVisibility)
        ELSE LET id == NextId(db.entries)
                 entry == [content |-> data.content, visibility |-> visibility,
                           scribe_id |-> First(DOMAIN db.scribes),
                           created_at |-> t, updated_at |-> t]
                 added == [db EXCEPT !.entries =
                              [i \in DOMAIN db.entries \cup {id} |->
                                  IF i = id THEN entry ELSE db.entries[i]]]
             IN  Result(added, DataResponse(201, Entry_to_jsonapi(added, id)))

\* mutant of create_entry: the new entry is stamped with the epoch, not the clock
create_entry_at_epoch(db, auth, data, t) ==
    LET current_scribe == require_auth(db, auth).scribe
        visibility == IF data.visibility = ABSENT THEN "public" ELSE data.visibility
    IN  IF current_scribe = 0 THEN Result(db, require_auth(db, auth).resp)
        ELSE IF EmptyBody(data) THEN Result(db, InvalidRequest)
        ELSE IF data.content = ABSENT
        THEN Result(db, ErrorResponse(400, "Missing Required Field",
                                      "The content field is required"))
        ELSE IF visibility \notin {"public", "private"}
        THEN Result(db, InvalidVisibility)
        ELSE LET id == NextId(db.entries)
                 entry == [content |-> data.content, visibility |-> visibility,
                           scribe_id |-> current_scribe,
                           created_at |-> 0, updated_at |-> 0]
                 added == [db EXCEPT !.entries =
                              [i \in DOMAIN db.entries \cup {id} |->
                                  IF i = id THEN entry ELSE db.entries[i]]]
             IN  Result(added, DataResponse(201, Entry_to_jsonapi(added, id)))

create_entry(db, auth, data, t) ==
    LET current_scribe == require_auth(db, auth).scribe
        visibility == IF data.visibility = ABSENT THEN "public" ELSE data.visibility
    IN  IF current_scribe = 0 THEN Result(db, require_auth(db, auth).resp)
        ELSE IF EmptyBody(data) THEN Result(db, InvalidRequest)
        ELSE IF data.content = ABSENT
        THEN Result(db, ErrorResponse(400, "Missing Required Field",
                                      "The content field is required"))
        ELSE IF visibility \notin {"public", "private"}
        THEN Result(db, InvalidVisibility)
        ELSE LET id == NextId(db.entries)
                 entry == [content |-> data.content, visibility |-> visibility,
                           scribe_id |-> current_scribe,
                           created_at |-> t, updated_at |-> t]
                 added == [db EXCEPT !.entries =
                              [i \in DOMAIN db.entries \cup {id} |->
                                  IF i = id THEN entry ELSE db.entries[i]]]
             IN  Result(added, DataResponse(201, Entry_to_jsonapi(added, id)))

\* mutant of Hidden: any authenticated caller may read a private entry
HiddenFromAnonymousOnly(entry, current_scribe) ==
    entry.visibility = "private" /\ current_scribe = 0

\* mutant of Hidden: every entry, public or private, is shown to its owner only
HiddenFromAllButOwner(entry, current_scribe) ==
    current_scribe = 0 \/ current_scribe # entry.scribe_id

\* a private entry is shown to its owner only
Hidden(entry, current_scribe) ==
    entry.visibility = "private"
        /\ (current_scribe = 0 \/ current_scribe # entry.scribe_id)

get_entry(db, auth, entry_id) ==
    LET current_scribe == optional_auth(db, auth)
        entry == GetEntry(db, entry_id)
    IN  IF entry = 0 THEN Result(db, EntryNotFound(entry_id))
        ELSE IF Hidden(db.entries[entry], current_scribe)
        THEN Result(db, EntryNotFound(entry_id))
        ELSE Result(db, DataResponse(200, Entry_to_jsonapi(db, entry)))

\* mutant of update_entry: the entry is looked up before the credentials are
\* verified
update_entry_lookup_first(db, auth, entry_id, data, t) ==
    LET current_scribe == require_auth(db, auth).scribe
        entry == GetEntry(db, entry_id)
    IN  IF entry = 0 THEN Result(db, EntryNotFound(entry_id))
        ELSE IF current_scribe = 0 THEN Result(db, require_auth(db, auth).resp)
        ELSE IF current_scribe # db.entries[entry].scribe_id
        THEN Result(db, Forbidden("You can only update your own entries"))
        ELSE IF EmptyBody(data) THEN Result(db, InvalidRequest)
        ELSE IF data.visibility # ABSENT
                  /\ data.visibility \notin {"public", "private"}
        THEN Result(db, InvalidVisibility)
        ELSE LET c == IF data.content # ABSENT
                      THEN [db.entries[entry] EXCEPT !.content = data.content]
                      ELSE db.entries[entry]
                 v == IF data.visibility # ABSENT
                      THEN [c EXCEPT !.visibility = data.visibility]
                      ELSE c
                 updated == [db EXCEPT !.entries[entry] =
                                Stamp(db.entries[entry], v, t)]
             IN  Result(updated, DataResponse(200, Entry_to_jsonapi(updated, entry)))

\* mutant of update_entry: the ownership check is missing
update_entry_any_caller(db, auth, entry_id, data, t) ==
    LET current_scribe == require_auth(db, auth).scribe
        entry == GetEntry(db, entry_id)
    IN  IF current_scribe = 0 THEN Result(db, require_auth(db, auth).resp)
        ELSE IF entry = 0 THEN Result(db, EntryNotFound(entry_id))
        ELSE IF EmptyBody(data) THEN Result(db, InvalidRequest)
        ELSE IF data.visibility # ABSENT
                  /\ data.visibility \notin {"public", "private"}
        THEN Result(db, InvalidVisibility)
        ELSE LET c == IF data.content # ABSENT
                      THEN [db.entries[entry] EXCEPT !.content = data.content]
                      ELSE db.entries[entry]
                 v == IF data.visibility # ABSENT
                      THEN [c EXCEPT !.visibility = data.visibility]
                      ELSE c
                 updated == [db EXCEPT !.entries[entry] =
                                Stamp(db.entries[entry], v, t)]
             IN  Result(updated, DataResponse(200, Entry_to_jsonapi(updated, entry)))

\* mutant of update_entry: the visibility is stored as supplied
update_entry_unvalidated(db, auth, entry_id, data, t) ==
    LET current_scribe == require_auth(db, auth).scribe
        entry == GetEntry(db, entry_id)
    IN  IF current_scribe = 0 THEN Result(db, require_auth(db, auth).resp)
        ELSE IF entry = 0 THEN Result(db, EntryNotFound(entry_id))
        ELSE IF current_scribe # db.entries[entry].scribe_id
        THEN Result(db, Forbidden("You can only update your own entries"))
        ELSE IF EmptyBody(data) THEN Result(db, InvalidRequest)
        ELSE LET c == IF data.content # ABSENT
                      THEN [db.entries[entry] EXCEPT !.content = data.content]
                      ELSE db.entries[entry]
                 v == IF data.visibility # ABSENT
                      THEN [c EXCEPT !.visibility = data.visibility]
                      ELSE c
                 updated == [db EXCEPT !.entries[entry] =
                                Stamp(db.entries[entry], v, t)]
             IN  Result(updated, DataResponse(200, Entry_to_jsonapi(updated, entry)))

update_entry(db, auth, entry_id, data, t) ==
    LET current_scribe == require_auth(db, auth).scribe
        entry == GetEntry(db, entry_id)
    IN  IF current_scribe = 0 THEN Result(db, require_auth(db, auth).resp)
        ELSE IF entry = 0 THEN Result(db, EntryNotFound(entry_id))
        ELSE IF current_scribe # db.entries[entry].scribe_id
        THEN Result(db, Forbidden("You can only update your own entries"))
        ELSE IF EmptyBody(data) THEN Result(db, InvalidRequest)
        ELSE IF data.visibility # ABSENT
                  /\ data.visibility \notin {"public", "private"}
        THEN \* returns before the commit: the content assigned above is discarded
             \* with the request's session
             Result(db, InvalidVisibility)
        ELSE LET c == IF data.content # ABSENT
                      THEN [db.entries[entry] EXCEPT !.content = data.content]
                      ELSE db.entries[entry]
                 v == IF data.visibility # ABSENT
                      THEN [c EXCEPT !.visibility = data.visibility]
                      ELSE c
                 updated == [db EXCEPT !.entries[entry] =
                                Stamp(db.entries[entry], v, t)]
             IN  Result(updated, DataResponse(200, Entry_to_jsonapi(updated, entry)))

\* mutant of delete_entry: the ownership check is missing
delete_entry_any_caller(db, auth, entry_id) ==
    LET current_scribe == require_auth(db, auth).scribe
        entry == GetEntry(db, entry_id)
    IN  IF current_scribe = 0 THEN Result(db, require_auth(db, auth).resp)
        ELSE IF entry = 0 THEN Result(db, EntryNotFound(entry_id))
        ELSE Result([db EXCEPT !.entries = Without(db.entries, entry)],
                    EmptyResponse(204))

\* mutant of delete_entry: the entry is deleted before the ownership check
\* answers 403
delete_entry_then_forbid(db, auth, entry_id) ==
    LET current_scribe == require_auth(db, auth).scribe
        entry == GetEntry(db, entry_id)
    IN  IF current_scribe = 0 THEN Result(db, require_auth(db, auth).resp)
        ELSE IF entry = 0 THEN Result(db, EntryNotFound(entry_id))
        ELSE IF current_scribe # db.entries[entry].scribe_id
        THEN Result([db EXCEPT !.entries = Without(db.entries, entry)],
                    Forbidden("You can only delete your own entries"))
        ELSE Result([db EXCEPT !.entries = Without(db.entries, entry)],
                    EmptyResponse(204))

delete_entry(db, auth, entry_id) ==
    LET current_scribe == require_auth(db, auth).scribe
        entry == GetEntry(db, entry_id)
    IN  IF current_scribe = 0 THEN Result(db, require_auth(db, auth).resp)
        ELSE IF entry = 0 THEN Result(db, EntryNotFound(entry_id))
        ELSE IF current_scribe # db.entries[entry].scribe_id
        THEN Result(db, Forbidden("You can only delete your own entries"))
        ELSE Result([db EXCEPT !.entries = Without(db.entries, entry)],
                    EmptyResponse(204))

\* the orders ORDER BY created_at DESC may give: newest first, rows of equal
\* created_at in any order
RECURSIVE Orderings(_)
Orderings(ids) ==
    IF ids = {} THEN {<<>>}
    ELSE UNION {{<<i>> \o rest : rest \in Orderings(ids \ {i})} : i \in ids}

\* mutant of ChronicleOrders: ORDER BY created_at ascending
ChronicleOrdersOldestFirst(db, scribe_id) ==
    {order \in Orderings({i \in DOMAIN db.entries :
                             db.entries[i].scribe_id = scribe_id}) :
        \A a, b \in 1..Len(order) :
            a < b => db.entries[order[a]].created_at <= db.entries[order[b]].created_at}

ChronicleOrders(db, scribe_id) ==
    {order \in Orderings({i \in DOMAIN db.entries :
                             db.entries[i].scribe_id = scribe_id}) :
        \A a, b \in 1..Len(order) :
            a < b => db.entries[order[a]].created_at >= db.entries[order[b]].created_at}

\* `order` is the order the store returned the rows in
get_chronicle(db, auth, order) ==
    LET current_scribe == require_auth(db, auth).scribe
    IN  IF current_scribe = 0 THEN Result(db, require_auth(db, auth).resp)
        ELSE Result(db, ListResponse(200,
                 [k \in 1..Len(order) |-> Entry_to_jsonapi(db, order[k])]))

(* ------------------------------ requests ------------------------------- *)

EnlistBodies ==
    [username : Usernames \cup {ABSENT}, email : Emails \cup {ABSENT, NULL},
     password : Passwords \cup {ABSENT}, bio : Bios \cup {ABSENT}]

ScribeBodies ==
    [email : Emails \cup {ABSENT, NULL}, bio : Bios \cup {ABSENT},
     password : Passwords \cup {ABSENT}]

EntryBodies ==
    [content : Contents \cup {ABSENT},
     visibility : {ABSENT, "public", "private", "secret"}]

(* ---------------------------- state machine ---------------------------- *)

\* the store as the handlers see it
store == [scribes |-> scribes, entries |-> entries]

Init ==
    /\ scribes = <<>>
    /\ entries = <<>>
    /\ now = 0
    /\ last_password = <<>>
    /\ requests = <<>>
    /\ foreign_keys = FALSE
    /\ session = [held |-> FALSE, entries |-> <<>>]

Enlist ==
    \E data \in EnlistBodies, salt \in Salts :
        LET result == enlist(store, data, now, salt)
        IN  /\ DOMAIN result.db.scribes \subseteq ScribeIds
            /\ scribes' = result.db.scribes
            /\ entries' = result.db.entries
            /\ last_password' =
                   IF result.resp.status = 201
                   THEN [i \in DOMAIN result.db.scribes |->
                            IF i \in DOMAIN scribes THEN last_password[i]
                            ELSE data.password]
                   ELSE last_password
            /\ UNCHANGED <<now, requests, foreign_keys, session>>

Unlock ==
    \E auth \in Credentials :
        LET result == unlock(store, auth)
        IN  /\ scribes' = result.db.scribes
            /\ entries' = result.db.entries
            /\ UNCHANGED <<now, last_password, requests, foreign_keys, session>>

Lock ==
    \E auth \in Credentials :
        LET result == lock(store, auth)
        IN  /\ scribes' = result.db.scribes
            /\ entries' = result.db.entries
            /\ UNCHANGED <<now, last_password, requests, foreign_keys, session>>

GetScribe ==
    \E scribe_id \in ScribeIds :
        LET result == get_scribe(store, scribe_id)
        IN  /\ scribes' = result.db.scribes
            /\ entries' = result.db.entries
            /\ UNCHANGED <<now, last_password, requests, foreign_keys, session>>

UpdateScribe ==
    \E auth \in Credentials, scribe_id \in ScribeIds, data \in ScribeBodies,
       salt \in Salts :
        LET result == update_scribe(store, auth, scribe_id, data, now, salt)
        IN  /\ scribes' = result.db.scribes
            /\ entries' = result.db.entries
            /\ last_password' =
                   IF result.resp.status = 200 /\ data.password # ABSENT
                   THEN [last_password EXCEPT ![scribe_id] = data.password]
                   ELSE last_password
            /\ UNCHANGED <<now, requests, foreign_keys, session>>

DeleteScribe ==
    \E auth \in Credentials, scribe_id \in ScribeIds :
        LET result == delete_scribe(store, auth, scribe_id)
        IN  /\ scribes' = result.db.scribes
            /\ entries' = result.db.entries
            /\ last_password' =
                   IF result.resp.status = 204
                   THEN Without(last_password, scribe_id)
                   ELSE last_password
            /\ UNCHANGED <<now, requests, foreign_keys, session>>

CreateEntry ==
    \E auth \in Credentials, data \in EntryBodies :
        LET result == create_entry(store, auth, data, now)
        IN  /\ DOMAIN result.db.entries \subseteq EntryIds
            /\ scribes' = result.db.scribes
            /\ entries' = result.db.entries
            /\ UNCHANGED <<now, last_password, requests, foreign_keys, session>>

GetEntryById ==
    \E auth \in Credentials, entry_id \in EntryIdStrings :
        LET result == get_entry(store, auth, entry_id)
        IN  /\ scribes' = result.db.scribes
            /\ entries' = result.db.entries
            /\ UNCHANGED <<now, last_password, requests, foreign_keys, session>>

UpdateEntry ==
    \E auth \in Credentials, entry_id \in EntryIdStrings, data \in EntryBodies :
        LET result == update_entry(store, auth, entry_id, data, now)
        IN  /\ scribes' = result.db.scribes
            /\ entries' = result.db.entries
            /\ UNCHANGED <<now, last_password, requests, foreign_keys, session>>

DeleteEntry ==
    \E auth \in Credentials, entry_id \in EntryIdStrings :
        LET result == delete_entry(store, auth, entry_id)
        IN  /\ scribes' = result.db.scribes
            /\ entries' = result.db.entries
            /\ UNCHANGED <<now, last_password, requests, foreign_keys, session>>

GetChronicle ==
    \E auth \in Credentials :
        \E order \in ChronicleOrders(store, require_auth(store, auth).scribe) :
            LET result == get_chronicle(store, auth, order)
            IN  /\ scribes' = result.db.scribes
                /\ entries' = result.db.entries
                /\ UNCHANGED <<now, last_password, requests, foreign_keys, session>>

Next ==
    \/ Enlist
    \/ Unlock
    \/ Lock
    \/ GetScribe
    \/ UpdateScribe
    \/ DeleteScribe
    \/ CreateEntry
    \/ GetEntryById
    \/ UpdateEntry
    \/ DeleteEntry
    \/ GetChronicle

Spec == Init /\ [][Next]_vars

(* ------------------------ timed state machine -------------------------- *)

\* The same handlers under a clock that advances between requests.  The
\* requests are drawn from smaller sets: each username enlists with one email
\* and one password, profiles change by bio, entries by content and visibility.

TimedEnlistBodies ==
    {[username |-> "alice", email |-> "a@x.com", password |-> "pw1", bio |-> ABSENT],
     [username |-> "bob", email |-> "b@x.com", password |-> "pw1", bio |-> ABSENT]}

TimedCredentials == {NoAuth} \cup [username : Usernames, password : {"pw1"}]

TimedScribeBodies ==
    [email : {ABSENT}, bio : Bios \cup {ABSENT, NULL}, password : {ABSENT}]

TimedEntryBodies ==
    [content : Contents \cup {ABSENT}, visibility : {ABSENT, "public", "private"}]

\* datetime.utcnow() read later: the clock has moved on
Tick ==
    /\ now < MaxClock
    /\ now' = now + 1
    /\ UNCHANGED <<scribes, entries, last_password, requests, foreign_keys, session>>

TimedEnlist ==
    \E data \in TimedEnlistBodies, salt \in Salts :
        LET result == enlist(store, data, now, salt)
        IN  /\ DOMAIN result.db.scribes \subseteq ScribeIds
            /\ scribes' = result.db.scribes
            /\ entries' = result.db.entries
            /\ last_password' =
                   IF result.resp.status = 201
                   THEN [i \in DOMAIN result.db.scribes |->
                            IF i \in DOMAIN scribes THEN last_password[i]
                            ELSE data.password]
                   ELSE last_password
            /\ UNCHANGED <<now, requests, foreign_keys, session>>

TimedUnlock ==
    \E auth \in TimedCredentials :
        LET result == unlock(store, auth)
        IN  /\ scribes' = result.db.scribes
            /\ entries' = result.db.entries
            /\ UNCHANGED <<now, last_password, requests, foreign_keys, session>>

TimedLock ==
    \E auth \in TimedCredentials :
        LET result == lock(store, auth)
        IN  /\ scribes' = result.db.scribes
            /\ entries' = result.db.entries
            /\ UNCHANGED <<now, last_password, requests, foreign_keys, session>>

TimedGetScribe ==
    \E scribe_id \in ScribeIds :
        LET result == get_scribe(store, scribe_id)
        IN  /\ scribes' = result.db.scribes
            /\ entries' = result.db.entries
            /\ UNCHANGED <<now, last_password, requests, foreign_keys, session>>

TimedUpdateScribe ==
    \E auth \in TimedCredentials, scribe_id \in ScribeIds,
       data \in TimedScribeBodies, salt \in Salts :
        LET result == update_scribe(store, auth, scribe_id, data, now, salt)
        IN  /\ scribes' = result.db.scribes
            /\ entries' = result.db.entries
            /\ UNCHANGED <<now, last_password, requests, foreign_keys, session>>

TimedDeleteScribe ==
    \E auth \in TimedCredentials, scribe_id \in ScribeIds :
        LET result == delete_scribe(store, auth, scribe_id)
        IN  /\ scribes' = result.db.scribes
            /\ entries' = result.db.entries
            /\ last_password' =
                   IF result.resp.status = 204
                   THEN Without(last_password, scribe_id)
                   ELSE last_password
            /\ UNCHANGED <<now, requests, foreign_keys, session>>

TimedCreateEntry ==
    \E auth \in TimedCredentials, data \in TimedEntryBodies :
        LET result == create_entry(store, auth, data, now)
        IN  /\ DOMAIN result.db.entries \subseteq EntryIds
            /\ scribes' = result.db.scribes
            /\ entries' = result.db.entries
            /\ UNCHANGED <<now, last_password, requests, foreign_keys, session>>

TimedGetEntryById ==
    \E auth \in TimedCredentials, entry_id \in EntryIdStrings :
        LET result == get_entry(store, auth, entry_id)
        IN  /\ scribes' = result.db.scribes
            /\ entries' = result.db.entries
            /\ UNCHANGED <<now, last_password, requests, foreign_keys, session>>

TimedUpdateEntry ==
    \E auth \in TimedCredentials, entry_id \in EntryIdStrings,
       data \in TimedEntryBodies :
        LET result == update_entry(store, auth, entry_id, data, now)
        IN  /\ scribes' = result.db.scribes
            /\ entries' = result.db.entries
            /\ UNCHANGED <<now, last_password, requests, foreign_keys, session>>

TimedDeleteEntry ==
    \E auth \in TimedCredentials, entry_id \in EntryIdStrings :
        LET result == delete_entry(store, auth, entry_id)
        IN  /\ scribes' = result.db.scribes
            /\ entries' = result.db.entries
            /\ UNCHANGED <<now, last_password, requests, foreign_keys, session>>

TimedGetChronicle ==
    \E auth \in TimedCredentials :
        \E order \in ChronicleOrders(store, require_auth(store, auth).scribe) :
            LET result == get_chronicle(store, auth, order)
            IN  /\ scribes' = result.db.scribes
                /\ entries' = result.db.entries
                /\ UNCHANGED <<now, last_password, requests, foreign_keys, session>>

TimedNext ==
    \/ Tick
    \/ TimedEnlist
    \/ TimedUnlock
    \/ TimedLock
    \/ TimedGetScribe
    \/ TimedUpdateScribe
    \/ TimedDeleteScribe
    \/ TimedCreateEntry
    \/ TimedGetEntryById
    \/ TimedUpdateEntry
    \/ TimedDeleteEntry
    \/ TimedGetChronicle

TimedSpec == Init /\ [][TimedNext]_vars

(* ---------------------- requests handled concurrently ------------------- *)

\* Several workers handle one request each, statement by statement.  Every
\* SELECT reads the committed store as it is when the statement runs (the
\* session opens no read transaction); a flush with its COMMIT is one step.

Workers == 1..NumWorkers

\* an uncaught exception: Flask answers 500
InternalServerError ==
    ErrorResponse(500, "Internal Server Error", "The server encountered an error")

\* a worker's request: what was asked (op, auth, scribe_id, entry_id, data),
\* the handler's position (pc), and what its session holds: me and row, the
\* scribe require_auth loaded; new and entry, the entry (or scribe) row the
\* handler loaded or inserted; kids, the entries loaded for the cascade
Request(op, auth, scribe_id, entry_id, data, pc) ==
    [op |-> op, auth |-> auth, scribe_id |-> scribe_id, entry_id |-> entry_id,
     data |-> data, pc |-> pc, me |-> 0, row |-> <<>>, new |-> 0, entry |-> <<>>,
     kids |-> {}, resp |-> EmptyResponse(0)]

Idle == Request("idle", NoAuth, 0, "", <<>>, "idle")

\* the store the concurrent requests start from: alice, enlisted earlier, with
\* a public and a private entry
RaceStore ==
    [scribes |-> <<[username |-> "alice", email |-> "a@x.com",
                    password_hash |-> generate_password_hash("pw1", 1),
                    bio |-> NULL, created_at |-> 0, updated_at |-> 0]>>,
     entries |-> <<[content |-> "c1", visibility |-> "public", scribe_id |-> 1,
                    created_at |-> 0, updated_at |-> 0],
                   [content |-> "c2", visibility |-> "private", scribe_id |-> 1,
                    created_at |-> 0, updated_at |-> 0]>>]

AliceAuth == [username |-> "alice", password |-> "pw1"]

\* the requests the workers receive
RaceRequests ==
    {Request("enlist", NoAuth, 0, "",
             [username |-> "bob", email |-> "b@x.com", password |-> "pw1",
              bio |-> ABSENT], "commit"),
     Request("update_scribe", AliceAuth, 1, "",
             [email |-> "b@x.com", bio |-> ABSENT, password |-> ABSENT], "auth"),
     Request("update_scribe", AliceAuth, 1, "",
             [email |-> ABSENT, bio |-> "bio", password |-> ABSENT], "auth"),
     Request("delete_scribe", AliceAuth, 1, "", <<>>, "auth"),
     Request("create_entry", AliceAuth, 0, "",
             [content |-> "c1", visibility |-> ABSENT], "auth"),
     Request("get_scribe", NoAuth, 1, "", <<>>, "lookup"),
     Request("get_entry", NoAuth, 0, "1", <<>>, "lookup"),
     Request("get_entry", AliceAuth, 0, "2", <<>>, "auth"),
     Request("get_chronicle", AliceAuth, 0, "", <<>>, "auth")}

RaceInit ==
    /\ scribes = RaceStore.scribes
    /\ entries = RaceStore.entries
    /\ now = 1
    /\ last_password = <<"pw1">>
    /\ requests = [w \in Workers |-> Idle]
    /\ foreign_keys \in BOOLEAN
    /\ session = [held |-> FALSE, entries |-> <<>>]

\* the handler of worker w returns this response
Respond(w, response) ==
    requests' = [requests EXCEPT ![w].pc = "done", ![w].resp = response]

\* a worker takes a request off the wire
Receive(w) ==
    /\ requests[w].pc = "idle"
    /\ \E request \in RaceRequests : requests' = [requests EXCEPT ![w] = request]
    /\ UNCHANGED <<scribes, entries, now, last_password, foreign_keys, session>>

\* require_auth / optional_auth: the SELECT by username and the password check,
\* then the handler's own checks up to its next statement
Authenticate(w) ==
    LET r == requests[w]
        checked == require_auth(store, r.auth)
    IN  /\ r.pc = "auth"
        /\ IF r.op = "get_entry"
           THEN LET current_scribe == optional_auth(store, r.auth)
                IN  requests' = [requests EXCEPT
                        ![w].me = current_scribe,
                        ![w].row = IF current_scribe = 0 THEN <<>>
                                   ELSE scribes[current_scribe],
                        ![w].pc = "lookup"]
           ELSE IF checked.scribe = 0 THEN Respond(w, checked.resp)
           ELSE IF r.op = "create_entry"
           THEN LET local == create_entry(store, r.auth, r.data, now)
                IN  IF local.resp.status # 201 THEN Respond(w, local.resp)
                    ELSE requests' = [requests EXCEPT ![w].me = checked.scribe,
                                                      ![w].row = scribes[checked.scribe],
                                                      ![w].pc = "commit"]
           ELSE requests' = [requests EXCEPT
                                ![w].me = checked.scribe,
                                ![w].row = scribes[checked.scribe],
                                ![w].pc = IF r.op = "get_chronicle" THEN "query"
                                          ELSE "lookup"]
        /\ UNCHANGED <<scribes, entries, now, last_password, foreign_keys, session>>

\* what the session of worker w holds of the scribes table: the scribe loaded
\* by the authentication, as it was loaded
Session(w) ==
    [scribes |-> [i \in (IF requests[w].me = 0 THEN {} ELSE {requests[w].me}) |->
                     requests[w].row],
     entries |-> entries]

\* Scribe.query.get(scribe_id) of get_scribe, update_scribe and delete_scribe:
\* a SELECT unless the session already holds the row, then the handler's checks
LookUpScribe(w) ==
    LET r == requests[w]
        found == r.scribe_id = r.me \/ r.scribe_id \in DOMAIN scribes
    IN  /\ r.pc = "lookup"
        /\ r.op \in {"get_scribe", "update_scribe", "delete_scribe"}
        /\ IF r.op = "get_scribe" THEN Respond(w, get_scribe(store, r.scribe_id).resp)
           ELSE IF ~found THEN Respond(w, ScribeNotFound(r.scribe_id))
           ELSE IF r.me # r.scribe_id
           THEN Respond(w, Forbidden(IF r.op = "update_scribe"
                                     THEN "You can only update your own profile"
                                     ELSE "You can only delete your own account"))
           ELSE IF r.op = "update_scribe" /\ EmptyBody(r.data)
           THEN Respond(w, InvalidRequest)
           ELSE requests' = [requests EXCEPT
                                ![w].pc = IF r.op = "update_scribe" THEN "commit"
                                          ELSE "cascade"]
        /\ UNCHANGED <<scribes, entries, now, last_password, foreign_keys, session>>

\* db.session.get(Entry, entry_id) of get_entry and the visibility check; the
\* owner's row is in the session when the caller is the owner
LookUpEntry(w) ==
    LET r == requests[w]
        entry == GetEntry(store, r.entry_id)
    IN  /\ r.pc = "lookup"
        /\ r.op = "get_entry"
        /\ IF entry = 0 THEN Respond(w, EntryNotFound(r.entry_id))
           ELSE IF Hidden(entries[entry], r.me)
           THEN Respond(w, EntryNotFound(r.entry_id))
           ELSE IF entries[entry].scribe_id = r.me
           THEN Respond(w, DataResponse(200, Entry_to_jsonapi(Session(w), entry)))
           ELSE requests' = [requests EXCEPT ![w].new = entry,
                                             ![w].entry = entries[entry],
                                             ![w].pc = "load_scribe"]
        /\ UNCHANGED <<scribes, entries, now, last_password, foreign_keys, session>>

\* self.scribe.username in Entry.to_jsonapi: the SELECT of the entry's scribe;
\* without the row the attribute access raises
LoadEntryScribe(w) ==
    LET r == requests[w]
        loaded == [scribes |-> scribes, entries |-> [i \in {r.new} |-> r.entry]]
    IN  /\ r.pc = "load_scribe"
        /\ IF r.entry.scribe_id \notin DOMAIN scribes
           THEN Respond(w, InternalServerError)
           ELSE Respond(w, DataResponse(IF r.op = "create_entry" THEN 201 ELSE 200,
                                        Entry_to_jsonapi(loaded, r.new)))
        /\ UNCHANGED <<scribes, entries, now, last_password, foreign_keys, session>>

\* the SELECT of get_chronicle; each entry's scribe is the one in the session
QueryChronicle(w) ==
    LET r == requests[w]
    IN  /\ r.pc = "query"
        /\ \E order \in ChronicleOrders(store, r.me) :
               Respond(w, get_chronicle(Session(w), r.auth, order).resp)
        /\ UNCHANGED <<scribes, entries, now, last_password, foreign_keys, session>>

\* enlist up to its commit: the body's checks, then the INSERT; the store
\* checks its constraints and writes the row in the one statement
CommitEnlist(w) ==
    LET r == requests[w]
        result == enlist(store, r.data, now, 1)
    IN  /\ r.pc = "commit"
        /\ r.op = "enlist"
        /\ scribes' = result.db.scribes
        /\ last_password' =
               IF result.resp.status = 201
               THEN [i \in DOMAIN result.db.scribes |->
                        IF i \in DOMAIN scribes THEN last_password[i]
                        ELSE r.data.password]
               ELSE last_password
        /\ IF result.resp.status = 400 THEN Respond(w, result.resp)
           ELSE IF result.resp.status = 201
           THEN requests' = [requests EXCEPT ![w].new = NextId(scribes),
                                             ![w].pc = "refresh"]
           ELSE requests' = [requests EXCEPT ![w].pc = "requery_username"]
        /\ UNCHANGED <<entries, now, foreign_keys, session>>

\* after the rollback: existing_username = ...filter_by(username=...).first()
RequeryUsername(w) ==
    LET r == requests[w]
    IN  /\ r.pc = "requery_username"
        /\ requests' = [requests EXCEPT ![w].new = ByUsername(store, r.data.username),
                                        ![w].pc = "requery_email"]
        /\ UNCHANGED <<scribes, entries, now, last_password, foreign_keys, session>>

\* existing_email = ...filter_by(email=...).first(), and the 409 that names
\* what was found
RequeryEmail(w) ==
    LET r == requests[w]
        existing_username == r.new
        existing_email == ByEmail(store, r.data.email)
    IN  /\ r.pc = "requery_email"
        /\ r.op = "enlist"
        /\ IF existing_username # 0
           THEN Respond(w, ErrorResponse(409, "Username Already Exists",
                    "The username '" \o r.data.username \o "' is already taken"))
           ELSE IF existing_email # 0
           THEN Respond(w, ErrorResponse(409, "Email Already Exists",
                    "The email '" \o r.data.email \o "' is already registered"))
           ELSE Respond(w, ErrorResponse(409, "Conflict",
                    "A scribe with this username or email already exists"))
        /\ UNCHANGED <<scribes, entries, now, last_password, foreign_keys, session>>

\* the UPDATE a flush emits for a loaded row: the columns whose value was
\* changed since the load, and updated_at, written to the row of that id
WriteChanges(current, loaded, changed, t) ==
    [c \in DOMAIN current |->
        IF c = "updated_at" THEN t
        ELSE IF changed[c] # loaded[c] THEN changed[c]
        ELSE current[c]]

\* update_scribe's commit: no statement when nothing was changed, an error
\* that is not caught when the row is gone, the rollback on a conflict
CommitUpdateScribe(w) ==
    LET r == requests[w]
        changed == ScribeChanges(r.row, r.data, 1)
        written == [scribes EXCEPT ![r.scribe_id] =
                       WriteChanges(scribes[r.scribe_id], r.row, changed, now)]
    IN  /\ r.pc = "commit"
        /\ r.op = "update_scribe"
        /\ IF changed = r.row
           THEN /\ requests' = [requests EXCEPT ![w].pc = "refresh"]
                /\ UNCHANGED <<scribes, last_password>>
           ELSE IF r.scribe_id \notin DOMAIN scribes
           THEN /\ Respond(w, InternalServerError)
                /\ UNCHANGED <<scribes, last_password>>
           ELSE IF ScribeIntegrityError(written)
           THEN /\ requests' = [requests EXCEPT ![w].pc = "requery_email"]
                /\ UNCHANGED <<scribes, last_password>>
           ELSE /\ scribes' = written
                /\ last_password' =
                       IF r.data.password # ABSENT
                       THEN [last_password EXCEPT ![r.scribe_id] = r.data.password]
                       ELSE last_password
                /\ requests' = [requests EXCEPT ![w].pc = "refresh"]
        /\ UNCHANGED <<entries, now, foreign_keys, session>>

\* after the rollback: existing_email = ...filter_by(email=data.get("email"))
RequeryUpdateEmail(w) ==
    LET r == requests[w]
        existing_email ==
            ByEmail(store, IF r.data.email = ABSENT THEN NULL ELSE r.data.email)
    IN  /\ r.pc = "requery_email"
        /\ r.op = "update_scribe"
        /\ IF existing_email # 0 /\ existing_email # r.scribe_id
           THEN Respond(w, ErrorResponse(409, "Email Already Exists",
                    "The email '" \o r.data.email
                        \o "' is already registered to another scribe"))
           ELSE Respond(w, ErrorResponse(409, "Conflict",
                    "Unable to update profile due to a data conflict"))
        /\ UNCHANGED <<scribes, entries, now, last_password, foreign_keys, session>>

\* db.session.delete(scribe): the cascade loads the scribe's entries
LoadCascade(w) ==
    LET r == requests[w]
    IN  /\ r.pc = "cascade"
        /\ requests' = [requests EXCEPT
               ![w].kids = {i \in DOMAIN entries : entries[i].scribe_id = r.scribe_id},
               ![w].pc = "commit"]
        /\ UNCHANGED <<scribes, entries, now, last_password, foreign_keys, session>>

\* the DELETEs of the flush: the entries that were loaded, then the scribe
DeleteRows(db, scribe_id, kids) ==
    [scribes |-> Without(db.scribes, scribe_id),
     entries |-> [i \in DOMAIN db.entries \ kids |-> db.entries[i]]]

\* delete_scribe's commit; a store that enforces the foreign key refuses the
\* scribe's DELETE while an entry that was not loaded refers to it
CommitDeleteScribe(w) ==
    LET r == requests[w]
        left == {i \in DOMAIN entries : entries[i].scribe_id = r.scribe_id} \ r.kids
        deleted == DeleteRows(store, r.scribe_id, r.kids)
    IN  /\ r.pc = "commit"
        /\ r.op = "delete_scribe"
        /\ IF foreign_keys /\ left # {}
           THEN /\ Respond(w, InternalServerError)
                /\ UNCHANGED <<scribes, entries, last_password>>
           ELSE /\ scribes' = deleted.scribes
                /\ entries' = deleted.entries
                /\ last_password' = Without(last_password, r.scribe_id)
                /\ Respond(w, EmptyResponse(204))
        /\ UNCHANGED <<now, foreign_keys, session>>

\* create_entry's commit: the INSERT with scribe_id = current_scribe.id; a
\* store that enforces the foreign key refuses it when the scribe is gone
CommitCreateEntry(w) ==
    LET r == requests[w]
        result == create_entry(Session(w), r.auth, r.data, now)
    IN  /\ r.pc = "commit"
        /\ r.op = "create_entry"
        /\ IF foreign_keys /\ r.me \notin DOMAIN scribes
           THEN /\ Respond(w, InternalServerError)
                /\ UNCHANGED entries
           ELSE /\ entries' = result.db.entries
                /\ requests' = [requests EXCEPT ![w].new = NextId(entries),
                                                ![w].pc = "refresh"]
        /\ UNCHANGED <<scribes, now, last_password, foreign_keys, session>>

\* to_jsonapi() after a commit: the commit expired the row, the first
\* attribute access SELECTs it again and raises when it is gone
Refresh(w) ==
    LET r == requests[w]
        id == IF r.op = "update_scribe" THEN r.scribe_id ELSE r.new
    IN  /\ r.pc = "refresh"
        /\ IF r.op = "create_entry"
           THEN IF id \notin DOMAIN entries THEN Respond(w, InternalServerError)
                ELSE requests' = [requests EXCEPT ![w].entry = entries[id],
                                                  ![w].pc = "load_scribe"]
           ELSE IF id \notin DOMAIN scribes THEN Respond(w, InternalServerError)
           ELSE Respond(w, DataResponse(IF r.op = "enlist" THEN 201 ELSE 200,
                                        Scribe_to_jsonapi(store, id)))
        /\ UNCHANGED <<scribes, entries, now, last_password, foreign_keys, session>>

RaceNext ==
    \E w \in Workers :
        \/ Receive(w)
        \/ Authenticate(w)
        \/ LookUpScribe(w)
        \/ LookUpEntry(w)
        \/ LoadEntryScribe(w)
        \/ QueryChronicle(w)
        \/ CommitEnlist(w)
        \/ RequeryUsername(w)
        \/ RequeryEmail(w)
        \/ CommitUpdateScribe(w)
        \/ RequeryUpdateEmail(w)
        \/ LoadCascade(w)
        \/ CommitDeleteScribe(w)
        \/ CommitCreateEntry(w)
        \/ Refresh(w)

RaceSpec == RaceInit /\ [][RaceNext]_vars

(* ------------------ requests sharing one db.session -------------------- *)

\* db.session belongs to the application context.  A context pushed for each
\* request ends with it and the session is removed; a context held open around
\* the requests (app.app_context() in the test fixture) keeps one session, and
\* what a handler assigned without committing stays in it.

\* the entry rows update_entry has assigned when it returns 400 for the
\* visibility: the content is assigned before the visibility is looked at
update_entry_assigned(db, auth, entry_id, data) ==
    LET current_scribe == require_auth(db, auth).scribe
        entry == GetEntry(db, entry_id)
    IN  IF /\ current_scribe # 0
           /\ entry # 0
           /\ current_scribe = db.entries[entry].scribe_id
           /\ ~EmptyBody(data)
           /\ data.content # ABSENT
           /\ data.visibility # ABSENT
           /\ data.visibility \notin {"public", "private"}
        THEN [i \in {entry} |-> [db.entries[i] EXCEPT !.content = data.content]]
        ELSE <<>>

\* the store as the session shows it: a row it holds modified is returned in
\* place of the stored one
Dirty(db, pending) ==
    [db EXCEPT !.entries =
        [i \in DOMAIN db.entries |->
            IF i \in DOMAIN pending THEN pending[i] ELSE db.entries[i]]]

\* autoflush: the query of the authentication first writes the modified rows,
\* inside the session's transaction, and the write stamps them
Autoflush(db, pending, auth, t) ==
    IF auth = NoAuth THEN pending
    ELSE [i \in DOMAIN pending |-> Stamp(db.entries[i], pending[i], t)]

\* the end of the request: the session is removed with the request's
\* application context, and kept when a context is held open around it
shutdown_session(sess, pending) ==
    [sess EXCEPT !.entries = IF sess.held THEN pending ELSE <<>>]

\* the rows of both, those of `more` first
Merged(pending, more) ==
    [i \in DOMAIN pending \cup DOMAIN more |->
        IF i \in DOMAIN more THEN more[i] ELSE pending[i]]

\* the credentials the client of these requests sends
SessionCredentials == {AliceAuth, NoAuth}

SessionInit ==
    /\ scribes = RaceStore.scribes
    /\ entries = RaceStore.entries
    /\ now = 1
    /\ last_password = <<"pw1">>
    /\ requests = <<>>
    /\ foreign_keys = FALSE
    /\ session \in [held : BOOLEAN, entries : {<<>>}]

SessionUpdateEntry ==
    \E auth \in SessionCredentials, entry_id \in EntryIdStrings, data \in EntryBodies :
        LET flushed == Autoflush(store, session.entries, auth, now)
            shown == Dirty(store, flushed)
            result == update_entry(shown, auth, entry_id, data, now)
            assigned == update_entry_assigned(shown, auth, entry_id, data)
        IN  /\ entries' = IF result.resp.status = 200 THEN result.db.entries
                          ELSE entries
            /\ session' = IF result.resp.status = 200
                          THEN [session EXCEPT !.entries = <<>>]
                          ELSE shutdown_session(session, Merged(flushed, assigned))
            /\ UNCHANGED <<scribes, now, last_password, requests, foreign_keys>>

SessionGetEntry ==
    \E auth \in SessionCredentials, entry_id \in EntryIdStrings :
        LET flushed == Autoflush(store, session.entries, auth, now)
            result == get_entry(Dirty(store, flushed), auth, entry_id)
        IN  /\ auth # NoAuth
            /\ result.resp.status \in {200, 404}
            /\ session' = shutdown_session(session, flushed)
            /\ UNCHANGED <<scribes, entries, now, last_password, requests,
                           foreign_keys>>

SessionGetChronicle ==
    \E auth \in SessionCredentials :
        LET flushed == Autoflush(store, session.entries, auth, now)
            shown == Dirty(store, flushed)
        IN  /\ \E order \in ChronicleOrders(shown, require_auth(shown, auth).scribe) :
                   get_chronicle(shown, auth, order).resp.status \in {200, 401}
            /\ session' = shutdown_session(session, flushed)
            /\ UNCHANGED <<scribes, entries, now, last_password, requests,
                           foreign_keys>>

SessionNext ==
    \/ SessionUpdateEntry
    \/ SessionGetEntry
    \/ SessionGetChronicle

SessionSpec == SessionInit /\ [][SessionNext]_vars

(* ------------------------- vocabulary of the claims --------------------- *)

\* the scribe whose current credentials the request presents, 0 for none: the
\* username is the scribe's and the password is the one last set for it
Caller(auth) ==
    First({i \in DOMAIN scribes :
              scribes[i].username = auth.username /\ last_password[i] = auth.password})

\* a body update_entry accepts: not empty, the visibility (if given) valid
WellFormedEntryBody(data) ==
    ~EmptyBody(data) /\ data.visibility \in {ABSENT, "public", "private"}

\* the store with entry e removed, all else equal
StoreWithoutEntry(e) == [store EXCEPT !.entries = Without(entries, e)]

(* --------------------------------- C1 ----------------------------------- *)

\* C1: for every private entry E owned by A, get_entry(E) by a caller who is
\* anonymous, whose credentials fail verification, or who is authenticated as
\* another scribe returns 404 with the very status and body get_entry returns
\* for that id when no entry has it; the caller authenticated as A gets 200.
C1_PrivateEntryHidden ==
    \A e \in DOMAIN entries : entries[e].visibility = "private" =>
        \A auth \in Credentials :
            IF Caller(auth) = entries[e].scribe_id
            THEN get_entry(store, auth, ToString(e)).resp.status = 200
            ELSE /\ get_entry(store, auth, ToString(e)).resp.status = 404
                 /\ get_entry(store, auth, ToString(e)).resp
                        = get_entry(StoreWithoutEntry(e), auth, ToString(e)).resp

\* a private entry exists, another scribe presents valid credentials and is
\* answered 404, and the owner is answered 200
C1_Witness ==
    \E e \in DOMAIN entries, other \in Credentials, owner \in Credentials :
        /\ entries[e].visibility = "private"
        /\ Caller(other) \notin {0, entries[e].scribe_id}
        /\ Caller(owner) = entries[e].scribe_id
        /\ get_entry(store, other, ToString(e)).resp.status = 404
        /\ get_entry(store, owner, ToString(e)).resp.status = 200

(* --------------------------------- C2 ----------------------------------- *)

\* C2: for every entry E owned by A and every caller authenticated as B # A,
\* update_entry(E) and delete_entry(E) return 403 and leave the store (E's
\* content, visibility and owner included) unchanged; authenticated as A,
\* delete_entry(E) returns 204 and update_entry(E) with a well-formed body
\* returns 200.
C2_OnlyOwnerWritesEntry ==
    \A e \in DOMAIN entries, auth \in Credentials :
        Caller(auth) # 0 =>
            IF Caller(auth) # entries[e].scribe_id
            THEN /\ delete_entry(store, auth, ToString(e)).resp.status = 403
                 /\ delete_entry(store, auth, ToString(e)).db = store
                 /\ \A data \in EntryBodies :
                       /\ update_entry(store, auth, ToString(e), data, now).resp.status
                              = 403
                       /\ update_entry(store, auth, ToString(e), data, now).db = store
            ELSE /\ delete_entry(store, auth, ToString(e)).resp.status = 204
                 /\ e \notin DOMAIN delete_entry(store, auth, ToString(e)).db.entries
                 /\ \A data \in EntryBodies :
                       WellFormedEntryBody(data) =>
                           update_entry(store, auth, ToString(e), data, now).resp.status
                               = 200

\* an entry of A exists and B, authenticated, is refused both writes
C2_Witness ==
    \E e \in DOMAIN entries, auth \in Credentials, data \in EntryBodies :
        /\ Caller(auth) \notin {0, entries[e].scribe_id}
        /\ data.content \notin {ABSENT, entries[e].content}
        /\ update_entry(store, auth, ToString(e), data, now).resp.status = 403
        /\ delete_entry(store, auth, ToString(e)).resp.status = 403

(* --------------------------------- C3 ----------------------------------- *)

\* C3: for every scribe A and every caller authenticated as another scribe B,
\* update_scribe(A) and delete_scribe(A) return 403 and leave the store (A's
\* profile, password and entries included) unchanged; either request changes
\* the store only when its caller is authenticated as A.
C3_OnlyOwnerWritesScribe ==
    \A a \in DOMAIN scribes, auth \in Credentials :
        /\ Caller(auth) \notin {0, a} =>
              /\ delete_scribe(store, auth, a).resp.status = 403
              /\ delete_scribe(store, auth, a).db = store
              /\ \A data \in ScribeBodies, salt \in Salts :
                    /\ update_scribe(store, auth, a, data, now, salt).resp.status = 403
                    /\ update_scribe(store, auth, a, data, now, salt).db = store
        /\ Caller(auth) # a =>
              /\ delete_scribe(store, auth, a).db = store
              /\ \A data \in ScribeBodies, salt \in Salts :
                    update_scribe(store, auth, a, data, now, salt).db = store

\* two scribes exist, A owns an entry, and B, authenticated, is refused a
\* profile update and the deletion of A
C3_Witness ==
    \E a \in DOMAIN scribes, auth \in Credentials, data \in ScribeBodies :
        /\ Caller(auth) \notin {0, a}
        /\ \E e \in DOMAIN entries : entries[e].scribe_id = a
        /\ data.password \notin {ABSENT, last_password[a]}
        /\ update_scribe(store, auth, a, data, now, 1).resp.status = 403
        /\ delete_scribe(store, auth, a).resp.status = 403

(* --------------------------------- C4 ----------------------------------- *)

\* C4: in every reachable state every entry's scribe_id is the id of a scribe
\* that exists.
C4_NoOrphanEntry ==
    \A e \in DOMAIN entries : entries[e].scribe_id \in DOMAIN scribes

\* scribe 1 has been deleted (ids are handed out from 1, and scribe 2 exists
\* without it) and an entry, owned by the surviving scribe, is still there
C4_Witness ==
    /\ DOMAIN scribes = {2}
    /\ \E e \in DOMAIN entries : entries[e].scribe_id = 2

(* --------------------------------- C5 ----------------------------------- *)

\* C5: a successful delete_scribe(A) removes exactly A and A's entries: in the
\* store it leaves, get_scribe(A) and get_entry on every id A owned return 404
\* for every caller, and every other scribe's row (profile and password hash)
\* and every other scribe's entries are as before.
C5_DeleteScribeFrame ==
    \A a \in ScribeIds, auth \in Credentials :
        LET after == delete_scribe(store, auth, a).db
        IN  delete_scribe(store, auth, a).resp.status = 204 =>
                /\ get_scribe(after, a).resp.status = 404
                /\ \A e \in DOMAIN entries : entries[e].scribe_id = a =>
                      \A reader \in Credentials :
                          get_entry(after, reader, ToString(e)).resp.status = 404
                /\ DOMAIN after.scribes = DOMAIN scribes \ {a}
                /\ \A b \in DOMAIN after.scribes : after.scribes[b] = scribes[b]
                /\ DOMAIN after.entries =
                       {e \in DOMAIN entries : entries[e].scribe_id # a}
                /\ \A e \in DOMAIN after.entries : after.entries[e] = entries[e]
                /\ \A reader \in Credentials :
                      Verified(store, reader) # a =>
                          Verified(after, reader) = Verified(store, reader)

\* A owns a private entry, B owns an entry, and A's deletion of itself succeeds
C5_Witness ==
    \E a \in DOMAIN scribes, auth \in Credentials, e, f \in DOMAIN entries :
        /\ entries[e].scribe_id = a
        /\ entries[e].visibility = "private"
        /\ entries[f].scribe_id # a
        /\ delete_scribe(store, auth, a).resp.status = 204

(* --------------------------------- C6 ----------------------------------- *)

\* C6: in every reachable state no two scribes share a username and no two
\* scribes share an email.
C6_UniqueUsernameAndEmail ==
    \A i, j \in DOMAIN scribes :
        i # j => /\ scribes[i].username # scribes[j].username
                 /\ scribes[i].email # scribes[j].email

\* two scribes exist, and requests that would give one the username or the
\* email of the other are refused with 409
C6_Witness ==
    \E i, j \in DOMAIN scribes, auth \in Credentials :
        /\ i # j
        /\ Caller(auth) = i
        /\ update_scribe(store, auth, i,
               [email |-> scribes[j].email, bio |-> ABSENT, password |-> ABSENT],
               now, 1).resp.status = 409
        /\ enlist(store,
               [username |-> scribes[j].username, email |-> scribes[i].email,
                password |-> "pw1", bio |-> ABSENT], now, 1).resp.status = 409

(* --------------------------------- C7 ----------------------------------- *)

\* C7: a protected request carrying credentials (u, p) is authenticated as
\* scribe S exactly when S exists with username u and p is the password most
\* recently set for S (at enlist or by a successful update_scribe with a
\* password); otherwise it is rejected with 401.
C7_AuthenticatedIffCurrentPassword ==
    /\ DOMAIN last_password = DOMAIN scribes
    /\ \A auth \in Credentials :
          /\ require_auth(store, auth).scribe = Caller(auth)
          /\ Caller(auth) = 0 => require_auth(store, auth).resp.status = 401
          /\ unlock(store, auth).resp.status = IF Caller(auth) = 0 THEN 401 ELSE 200
          /\ Caller(auth) # 0 =>
                /\ Verified(delete_scribe(store, auth, Caller(auth)).db, auth) = 0
                /\ \A data \in ScribeBodies, salt \in Salts :
                      LET changed == update_scribe(store, auth, Caller(auth), data,
                                                   now, salt)
                          fresh == [auth EXCEPT !.password = data.password]
                      IN  IF changed.resp.status = 200 /\ data.password # ABSENT
                          THEN /\ Verified(changed.db, fresh) = Caller(auth)
                               /\ fresh # auth => Verified(changed.db, auth) = 0
                          ELSE Verified(changed.db, auth) = Caller(auth)

\* scribe 2 exists without scribe 1 (a scribe has been deleted); its password
\* has been changed since it enlisted or is changed now: the update succeeds,
\* after it the old password is rejected and the new one accepted, and a wrong
\* password is rejected before and after
C7_Witness ==
    /\ DOMAIN scribes = {2}
    /\ \E auth, wrong \in Credentials, data \in ScribeBodies :
          /\ Caller(auth) = 2
          /\ wrong.username = auth.username
          /\ data.password = wrong.password
          /\ unlock(store, wrong).resp.status = 401
          /\ update_scribe(store, auth, 2, data, now, 1).resp.status = 200
          /\ unlock(update_scribe(store, auth, 2, data, now, 1).db, auth).resp.status
                 = 401
          /\ unlock(update_scribe(store, auth, 2, data, now, 1).db, wrong).resp.status
                 = 200

(* --------------------------------- C8 ----------------------------------- *)

\* the ids the write/delete paths take, present in the store or not
NoSuchEntry(entry_id) == GetEntry(store, entry_id) = 0

NoSuchScribe(scribe_id) == scribe_id \notin DOMAIN scribes

\* C8 as stated: resource existence is evaluated before authentication, so
\* update_entry, delete_entry, update_scribe and delete_scribe on an id that
\* matches no resource return 404 even with missing or invalid credentials.
C8_ExistenceBeforeAuthentication ==
    \A auth \in Credentials : Caller(auth) = 0 =>
        /\ \A entry_id \in EntryIdStrings : NoSuchEntry(entry_id) =>
              /\ delete_entry(store, auth, entry_id).resp.status = 404
              /\ \A data \in EntryBodies :
                    update_entry(store, auth, entry_id, data, now).resp.status = 404
        /\ \A scribe_id \in ScribeIds : NoSuchScribe(scribe_id) =>
              /\ delete_scribe(store, auth, scribe_id).resp.status = 404
              /\ \A data \in ScribeBodies, salt \in Salts :
                    update_scribe(store, auth, scribe_id, data, now, salt).resp.status
                        = 404

\* the precedence of 401 and 404 in the code: 401 without valid credentials,
\* 404 exactly for an authenticated caller and an id that matches nothing
AuthenticationFirst(status, auth, missing) ==
    /\ Caller(auth) = 0 => status = 401
    /\ status = 404 <=> (Caller(auth) # 0 /\ missing)

\* C8 as amended: authentication is evaluated before resource existence: on
\* update_entry, delete_entry, update_scribe and delete_scribe a request with
\* missing or invalid credentials returns 401 whether or not the id matches a
\* resource, and 404 is returned exactly when the credentials verify and the id
\* matches no resource.
C8_AuthenticationBeforeExistence ==
    \A auth \in Credentials :
        /\ \A entry_id \in EntryIdStrings :
              /\ AuthenticationFirst(delete_entry(store, auth, entry_id).resp.status,
                                     auth, NoSuchEntry(entry_id))
              /\ \A data \in EntryBodies :
                    AuthenticationFirst(
                        update_entry(store, auth, entry_id, data, now).resp.status,
                        auth, NoSuchEntry(entry_id))
        /\ \A scribe_id \in ScribeIds :
              /\ AuthenticationFirst(delete_scribe(store, auth, scribe_id).resp.status,
                                     auth, NoSuchScribe(scribe_id))
              /\ \A data \in ScribeBodies, salt \in Salts :
                    AuthenticationFirst(
                        update_scribe(store, auth, scribe_id, data, now, salt)
                            .resp.status,
                        auth, NoSuchScribe(scribe_id))

\* an entry and a scribe exist, one entry id and one scribe id match nothing;
\* on those ids a caller with a wrong password is answered 401 and an
\* authenticated caller 404
C8_Witness ==
    \E wrong, right \in Credentials, entry_id \in EntryIdStrings,
       scribe_id \in ScribeIds, data \in EntryBodies :
        /\ entries # <<>>
        /\ NoSuchEntry(entry_id)
        /\ NoSuchScribe(scribe_id)
        /\ wrong # NoAuth
        /\ Caller(wrong) = 0
        /\ Caller(right) # 0
        /\ update_entry(store, wrong, entry_id, data, now).resp.status = 401
        /\ delete_scribe(store, wrong, scribe_id).resp.status = 401
        /\ update_entry(store, right, entry_id, data, now).resp.status = 404
        /\ delete_scribe(store, right, scribe_id).resp.status = 404

(* --------------------------------- C9 ----------------------------------- *)

\* answered 401, the store untouched
Rejected(result) == result.resp.status = 401 /\ result.db = store

\* C9: every protected operation (unlock, lock, create_entry, update_entry,
\* delete_entry, get_chronicle, update_scribe, delete_scribe) returns 401 and
\* leaves the store unchanged when the request carries no credentials or
\* credentials that fail verification, whether or not the target id exists and
\* whoever owns the target.
C9_UnauthenticatedIs401 ==
    \A auth \in Credentials : Caller(auth) = 0 =>
        /\ Rejected(unlock(store, auth))
        /\ Rejected(lock(store, auth))
        /\ \A order \in ChronicleOrders(store, require_auth(store, auth).scribe) :
              Rejected(get_chronicle(store, auth, order))
        /\ \A data \in EntryBodies :
              /\ Rejected(create_entry(store, auth, data, now))
              /\ \A entry_id \in EntryIdStrings :
                    Rejected(update_entry(store, auth, entry_id, data, now))
        /\ \A entry_id \in EntryIdStrings :
              Rejected(delete_entry(store, auth, entry_id))
        /\ \A scribe_id \in ScribeIds :
              /\ Rejected(delete_scribe(store, auth, scribe_id))
              /\ \A data \in ScribeBodies, salt \in Salts :
                    Rejected(update_scribe(store, auth, scribe_id, data, now, salt))

\* a scribe owns an entry, and requests on that entry and that scribe carrying
\* its username with a wrong password, or no credentials, are answered 401
C9_Witness ==
    \E e \in DOMAIN entries, wrong \in Credentials :
        /\ wrong.username = scribes[entries[e].scribe_id].username
        /\ Caller(wrong) = 0
        /\ delete_entry(store, wrong, ToString(e)).resp.title = "Invalid Credentials"
        /\ delete_scribe(store, wrong, entries[e].scribe_id).resp.status = 401
        /\ delete_entry(store, NoAuth, ToString(e)).resp.title
               = "Authentication Required"

(* --------------------------------- C10 ---------------------------------- *)

UsernameTaken(username) == \E i \in DOMAIN scribes : scribes[i].username = username

EmailTaken(email) == \E i \in DOMAIN scribes : scribes[i].email = email

\* C10: enlist with username, email and password present returns 409 and
\* creates no scribe whenever the username or the email is held by a scribe;
\* the title is "Username Already Exists" when the username is taken (whatever
\* the email) and "Email Already Exists" when only the email is taken; the
\* title "Conflict" is not returned for a taken username or email.
C10_ConflictNamesTheField ==
    \A data \in EnlistBodies, salt \in Salts :
        (data.username # ABSENT /\ data.email # ABSENT /\ data.password # ABSENT) =>
            LET result == enlist(store, data, now, salt)
            IN  /\ UsernameTaken(data.username) =>
                      /\ result.resp.status = 409
                      /\ result.resp.title = "Username Already Exists"
                      /\ result.db = store
                /\ (EmailTaken(data.email) /\ ~UsernameTaken(data.username)) =>
                      /\ result.resp.status = 409
                      /\ result.resp.title = "Email Already Exists"
                      /\ result.db = store
                /\ result.resp.title = "Conflict" =>
                      ~UsernameTaken(data.username) /\ ~EmailTaken(data.email)
                /\ (~UsernameTaken(data.username) /\ ~EmailTaken(data.email)
                        /\ data.email # NULL) => result.resp.status = 201

\* one scribe exists: an enlist with a free username and its email is answered
\* "Email Already Exists"; one with its username, whether with a free email or
\* with its email, "Username Already Exists"
C10_Witness ==
    \E i \in DOMAIN scribes, username \in Usernames, email \in Emails :
        /\ ~UsernameTaken(username)
        /\ ~EmailTaken(email)
        /\ enlist(store, [username |-> username, email |-> scribes[i].email,
                          password |-> "pw1", bio |-> ABSENT], now, 1).resp.title
               = "Email Already Exists"
        /\ enlist(store, [username |-> scribes[i].username, email |-> email,
                          password |-> "pw1", bio |-> ABSENT], now, 1).resp.title
               = "Username Already Exists"
        /\ enlist(store, [username |-> scribes[i].username,
                          email |-> scribes[i].email,
                          password |-> "pw1", bio |-> ABSENT], now, 1).resp.title
               = "Username Already Exists"

(* --------------------------------- C11 ---------------------------------- *)

\* the store as it would be had scribe a never been there: no scribe has a's
\* username
StoreWithoutScribe(a) == CascadeDelete(store, a)

\* C11: for credentials (u, p) where a scribe has username u and p is not its
\* password, every protected operation answers with the very response (status
\* and body) it gives to (u, p) when no scribe has username u.
C11_UnknownUsernameLooksLikeWrongPassword ==
    \A auth \in Credentials \ {NoAuth} :
        LET a == ByUsername(store, auth.username)
            without == StoreWithoutScribe(a)
        IN  (a # 0 /\ Caller(auth) = 0) =>
                /\ ByUsername(without, auth.username) = 0
                /\ require_auth(store, auth).resp = require_auth(without, auth).resp
                /\ unlock(store, auth).resp = unlock(without, auth).resp
                /\ unlock(store, auth).resp.status = 401
                /\ lock(store, auth).resp = lock(without, auth).resp
                /\ get_chronicle(store, auth, <<>>).resp
                       = get_chronicle(without, auth, <<>>).resp
                /\ \A data \in EntryBodies :
                      /\ create_entry(store, auth, data, now).resp
                             = create_entry(without, auth, data, now).resp
                      /\ \A entry_id \in EntryIdStrings :
                            update_entry(store, auth, entry_id, data, now).resp
                                = update_entry(without, auth, entry_id, data, now).resp
                /\ \A entry_id \in EntryIdStrings :
                      delete_entry(store, auth, entry_id).resp
                          = delete_entry(without, auth, entry_id).resp
                /\ \A scribe_id \in ScribeIds :
                      /\ delete_scribe(store, auth, scribe_id).resp
                             = delete_scribe(without, auth, scribe_id).resp
                      /\ \A data \in ScribeBodies, salt \in Salts :
                            update_scribe(store, auth, scribe_id, data, now, salt).resp
                                = update_scribe(without, auth, scribe_id, data, now,
                                                salt).resp

\* one scribe exists and owns an entry; its username with a wrong password and
\* a username no scribe has are both answered 401 "Invalid Credentials"
C11_Witness ==
    \E wrong, unknown \in Credentials :
        /\ Cardinality(DOMAIN scribes) = 1
        /\ entries # <<>>
        /\ ByUsername(store, wrong.username) # 0
        /\ Caller(wrong) = 0
        /\ unknown # NoAuth
        /\ ByUsername(store, unknown.username) = 0
        /\ unlock(store, wrong).resp.title = "Invalid Credentials"
        /\ unlock(store, wrong).resp = unlock(store, unknown).resp
        /\ delete_entry(store, wrong, "1").resp = delete_entry(store, unknown, "1").resp

(* --------------------------------- C12 ---------------------------------- *)

\* C12: get_entry on an existing public entry returns 200 with that entry (its
\* id, content and visibility) for every caller: no credentials, credentials
\* that fail verification, the owner, another scribe; none is answered 401.
C12_PublicEntryReadableByAll ==
    \A e \in DOMAIN entries : entries[e].visibility = "public" =>
        \A auth \in Credentials :
            LET result == get_entry(store, auth, ToString(e))
            IN  /\ result.resp.status = 200
                /\ result.resp.kind = "data"
                /\ result.resp.data[1].id = ToString(e)
                /\ result.resp.data[1].attributes.content = entries[e].content
                /\ result.resp.data[1].attributes.visibility = "public"
                /\ result.resp.data[1].attributes.scribeId = entries[e].scribe_id
                /\ result.db = store

\* a public entry exists and is read with 200 by a caller with its owner's
\* username and a wrong password, by another authenticated scribe, by the owner
\* and by an anonymous caller
C12_Witness ==
    \E e \in DOMAIN entries, wrong, other, owner \in Credentials :
        /\ entries[e].visibility = "public"
        /\ wrong.username = scribes[entries[e].scribe_id].username
        /\ Caller(wrong) = 0
        /\ Caller(other) \notin {0, entries[e].scribe_id}
        /\ Caller(owner) = entries[e].scribe_id
        /\ \A auth \in {wrong, other, owner, NoAuth} :
              get_entry(store, auth, ToString(e)).resp.status = 200

(* --------------------------------- C13 ---------------------------------- *)

\* the clock reading a serialized timestamp stands for
ParseIsoZ(text) == CHOOSE t \in 0..MaxClock : IsoZ(t) = text

\* the entries scribe a owns
EntriesOf(a) == {e \in DOMAIN entries : entries[e].scribe_id = a}

\* C13: get_chronicle for a caller authenticated as A returns 200 with exactly
\* the entries that exist with owner A, each once, each with its current
\* content and visibility, public and private alike, none of another scribe,
\* listed in non-increasing order of createdAt.
C13_ChronicleIsOwnEntriesNewestFirst ==
    \A auth \in Credentials : Caller(auth) # 0 =>
        \A order \in ChronicleOrders(store, require_auth(store, auth).scribe) :
            LET resp == get_chronicle(store, auth, order).resp
                listed == {resp.data[k].id : k \in 1..Len(resp.data)}
            IN  /\ resp.status = 200
                /\ listed = {ToString(e) : e \in EntriesOf(Caller(auth))}
                /\ Len(resp.data) = Cardinality(EntriesOf(Caller(auth)))
                /\ \A k \in 1..Len(resp.data) :
                      \E e \in EntriesOf(Caller(auth)) :
                          /\ resp.data[k].id = ToString(e)
                          /\ resp.data[k].attributes.content = entries[e].content
                          /\ resp.data[k].attributes.visibility = entries[e].visibility
                          /\ resp.data[k].attributes.scribeId = Caller(auth)
                /\ \A j, k \in 1..Len(resp.data) :
                      j < k => ParseIsoZ(resp.data[j].attributes.createdAt)
                                   >= ParseIsoZ(resp.data[k].attributes.createdAt)

\* A owns a public and a private entry created at different times, the older
\* one updated since; A's chronicle lists both, the newer first
C13_Witness ==
    \E auth \in Credentials, e, f \in DOMAIN entries :
        /\ Caller(auth) # 0
        /\ EntriesOf(Caller(auth)) = {e, f}
        /\ entries[e].created_at < entries[f].created_at
        /\ entries[e].updated_at > entries[e].created_at
        /\ entries[e].visibility # entries[f].visibility
        /\ ChronicleOrders(store, Caller(auth)) = {<<f, e>>}
        /\ get_chronicle(store, auth, <<f, e>>).resp.data[1].id = ToString(f)

(* --------------------------------- C14 ---------------------------------- *)

\* the first item of every list get_chronicle may return for auth on db is the
\* resource with this id
AlwaysAtHead(db, auth, id) ==
    \A order \in ChronicleOrders(db, require_auth(db, auth).scribe) :
        /\ Len(get_chronicle(db, auth, order).resp.data) > 0
        /\ get_chronicle(db, auth, order).resp.data[1].id = id

\* C14 as stated: after a successful create_entry by A the next get_chronicle
\* by A lists the new entry first, whatever entries A already had; an update
\* of an entry does not change the order of the chronicle.
C14_NewEntryAtHead ==
    \A auth \in Credentials : Caller(auth) # 0 =>
        /\ \A data \in EntryBodies :
              LET created == create_entry(store, auth, data, now)
              IN  created.resp.status = 201 =>
                      AlwaysAtHead(created.db, auth, created.resp.data[1].id)
        /\ \A e \in EntriesOf(Caller(auth)), data \in EntryBodies :
              LET updated == update_entry(store, auth, ToString(e), data, now)
              IN  updated.resp.status = 200 =>
                      ChronicleOrders(updated.db, Caller(auth))
                          = ChronicleOrders(store, Caller(auth))

\* C14 as amended: after a successful create_entry by A the next get_chronicle
\* by A lists the new entry ahead of every entry of A with an earlier
\* createdAt, and first when all A's other entries have an earlier createdAt;
\* an entry created at the same clock reading may be listed ahead of it.  An
\* update of an entry does not change the order of the chronicle.
C14_NewEntryAheadOfOlder ==
    \A auth \in Credentials : Caller(auth) # 0 =>
        /\ \A data \in EntryBodies :
              LET created == create_entry(store, auth, data, now)
                  id == created.resp.data[1].id
              IN  created.resp.status = 201 =>
                   /\ \A order \in ChronicleOrders(created.db, Caller(auth)) :
                        LET list == get_chronicle(created.db, auth, order).resp.data
                        IN  \E k \in 1..Len(list) :
                                /\ list[k].id = id
                                /\ \A j \in 1..Len(list) :
                                      ParseIsoZ(list[j].attributes.createdAt)
                                          < ParseIsoZ(list[k].attributes.createdAt)
                                      => k < j
                                /\ \A j \in 1..(k - 1) :
                                      list[j].attributes.createdAt
                                          = list[k].attributes.createdAt
                   /\ (\A e \in EntriesOf(Caller(auth)) : entries[e].created_at < now)
                          => AlwaysAtHead(created.db, auth, id)
        /\ \A e \in EntriesOf(Caller(auth)), data \in EntryBodies :
              LET updated == update_entry(store, auth, ToString(e), data, now)
              IN  updated.resp.status = 200 =>
                      ChronicleOrders(updated.db, Caller(auth))
                          = ChronicleOrders(store, Caller(auth))

\* A owns one entry, created earlier and updated since; A creates another now
\* and the next chronicle lists the new one first
C14_Witness ==
    \E auth \in Credentials, e \in DOMAIN entries, data \in EntryBodies :
        /\ Caller(auth) # 0
        /\ EntriesOf(Caller(auth)) = {e}
        /\ entries[e].created_at < now
        /\ entries[e].updated_at = now
        /\ create_entry(store, auth, data, now).resp.status = 201
        /\ AlwaysAtHead(create_entry(store, auth, data, now).db, auth,
                        create_entry(store, auth, data, now).resp.data[1].id)

(* --------------------------------- C15 ---------------------------------- *)

\* across a step every row that exists before and after keeps its created_at,
\* and a row that appears carries the clock reading of the step
CreatedAtKept(table, table_after) ==
    /\ \A i \in DOMAIN table \cap DOMAIN table_after :
          table_after[i].created_at = table[i].created_at
    /\ \A i \in DOMAIN table_after \ DOMAIN table :
          table_after[i].created_at = now

\* C15: for every scribe and every entry, createdAt is the clock reading at
\* which the record was created and no operation changes it, and in every
\* reachable state updatedAt >= createdAt.
C15_CreatedAtFixedUpdatedAtNotBefore ==
    /\ [](/\ \A a \in DOMAIN scribes : scribes[a].updated_at >= scribes[a].created_at
          /\ \A e \in DOMAIN entries : entries[e].updated_at >= entries[e].created_at)
    /\ [][CreatedAtKept(scribes, scribes') /\ CreatedAtKept(entries, entries')]_vars

\* a scribe and an entry, both created at the first clock reading and both
\* updated at a later one
C15_Witness ==
    \E a \in DOMAIN scribes, e \in DOMAIN entries :
        /\ scribes[a].created_at = 0
        /\ scribes[a].updated_at > 0
        /\ scribes[a].bio # NULL
        /\ entries[e].created_at = 0
        /\ entries[e].updated_at > 0

(* --------------------------------- C16 ---------------------------------- *)

\* C16 as stated, for requests made once the clock has moved past the record's
\* updatedAt: each update_scribe that returns 200 leaves the scribe's updatedAt
\* strictly greater than before, and each update_entry that returns 200 does
\* the same for the entry, whether or not the supplied values differ from the
\* stored ones.
C16_EverySuccessfulUpdateAdvancesUpdatedAt ==
    \A auth \in TimedCredentials : Caller(auth) # 0 =>
        /\ scribes[Caller(auth)].updated_at < now =>
              \A data \in TimedScribeBodies, salt \in Salts :
                  LET result == update_scribe(store, auth, Caller(auth), data, now, salt)
                  IN  result.resp.status = 200 =>
                          result.db.scribes[Caller(auth)].updated_at
                              > scribes[Caller(auth)].updated_at
        /\ \A e \in EntriesOf(Caller(auth)) : entries[e].updated_at < now =>
              \A data \in TimedEntryBodies :
                  LET result == update_entry(store, auth, ToString(e), data, now)
                  IN  result.resp.status = 200 =>
                          result.db.entries[e].updated_at > entries[e].updated_at

\* the clock has moved past a scribe's updatedAt; the scribe sends its stored
\* bio again and is answered 200 with updatedAt as it was, and sends a
\* different bio and is answered 200 with updatedAt advanced
C16_Witness ==
    \E auth \in TimedCredentials :
        LET a == Caller(auth)
            same == [email |-> ABSENT, bio |-> scribes[a].bio, password |-> ABSENT]
            other == [email |-> ABSENT, password |-> ABSENT,
                      bio |-> IF scribes[a].bio = NULL THEN "bio" ELSE NULL]
        IN  /\ a # 0
            /\ scribes[a].updated_at < now
            /\ update_scribe(store, auth, a, same, now, 1).resp.status = 200
            /\ update_scribe(store, auth, a, same, now, 1).db.scribes[a].updated_at
                   = scribes[a].updated_at
            /\ update_scribe(store, auth, a, other, now, 1).resp.status = 200
            /\ update_scribe(store, auth, a, other, now, 1).db.scribes[a].updated_at
                   > scribes[a].updated_at

(* --------------------------------- C17 ---------------------------------- *)

\* entry bodies whose visibility is neither "public" nor "private": another
\* word, another case, JSON null
InvalidVisibilityBodies ==
    [content : Contents \cup {ABSENT}, visibility : {"secret", "PUBLIC", NULL}]

OwnerNamingBodies ==
    [content : Contents \cup {ABSENT}, visibility : {ABSENT, "private"},
     scribe_id : {ToString(i) : i \in ScribeIds} \cup {ABSENT},
     scribeId : {ToString(i) : i \in ScribeIds} \cup {ABSENT}]

\* what a create_entry by scribe a may do to the store: nothing unless it is
\* answered 201, and then add one entry, owned by a, and change nothing else
CreatesOneEntryFor(a, result) ==
    IF result.resp.status # 201 THEN result.db = store
    ELSE LET id == NextId(entries)
         IN  /\ result.db.scribes = scribes
             /\ DOMAIN result.db.entries = DOMAIN entries \cup {id}
             /\ id \notin DOMAIN entries
             /\ \A e \in DOMAIN entries : result.db.entries[e] = entries[e]
             /\ result.db.entries[id].scribe_id = a
             /\ result.resp.data[1].id = ToString(id)
             /\ result.resp.data[1].attributes.scribeId = a

\* C18: every successful create_entry by a caller authenticated as A persists
\* exactly one new entry, whose scribe_id is A's id, and changes nothing else;
\* a body that names another scribe (scribe_id, scribeId) still creates the
\* entry for A.
C18_EntryCreatedForCaller ==
    \A auth \in Credentials : Caller(auth) # 0 =>
        /\ \A data \in EntryBodies :
              CreatesOneEntryFor(Caller(auth), create_entry(store, auth, data, now))
        /\ \A data \in OwnerNamingBodies :
              /\ CreatesOneEntryFor(Caller(auth), create_entry(store, auth, data, now))
              /\ data.content # ABSENT =>
                    create_entry(store, auth, data, now).resp.status = 201

\* two scribes exist and the second, authenticated, sends a body naming the
\* first as owner: the entry is created, for the second
C18_Witness ==
    \E auth \in Credentials :
        LET data == [content |-> "c1", visibility |-> ABSENT,
                     scribe_id |-> "1", scribeId |-> "1"]
        IN  /\ DOMAIN scribes = {1, 2}
            /\ Caller(auth) = 2
            /\ entries # <<>>
            /\ create_entry(store, auth, data, now).resp.status = 201
            /\ create_entry(store, auth, data, now).resp.data[1].attributes.scribeId = 2

(* --------------------------------- C19 ---------------------------------- *)

\* what a request does to the entries that exist: each keeps its owner, none
\* but `changed` has a new content or visibility, none but those in `removed`
\* is gone
EntriesTouched(after, changed, removed) ==
    \A e \in DOMAIN entries :
        IF e \in DOMAIN after.entries
        THEN /\ after.entries[e].scribe_id = entries[e].scribe_id
             /\ (after.entries[e].content # entries[e].content
                    \/ after.entries[e].visibility # entries[e].visibility)
                => e \in changed
        ELSE e \in removed

\* the entry the path names, when the caller is authenticated as its owner and
\* the request was answered with this status; otherwise none
OwnedBy(auth, entry_id, answered, status) ==
    {e \in DOMAIN entries :
        /\ ToString(e) = entry_id
        /\ Caller(auth) = entries[e].scribe_id
        /\ answered = status}

NoSecret(resp) ==
    /\ resp.title \notin Passwords
    /\ resp.detail \notin Passwords
    /\ \A k \in 1..Len(resp.data) :
          /\ DOMAIN resp.data[k] = {"type", "id", "attributes"}
          /\ DOMAIN resp.data[k].attributes
                 \cap {"password", "password_hash", "passwordHash"} = {}
          /\ \A f \in DOMAIN resp.data[k].attributes \ {"scribeId"} :
                resp.data[k].attributes[f] \notin Passwords

\* C20: get_scribe takes no credentials; on the id of an existing scribe it
\* returns 200 with exactly the attributes username, email, bio, createdAt and
\* updatedAt, holding the stored values; on an id that matches no scribe it
\* returns 404; and no response of any operation contains a password or a
\* password hash.
C20_ProfilePublicWithoutSecrets ==
    /\ \A scribe_id \in ScribeIds :
          LET resp == get_scribe(store, scribe_id).resp
          IN  /\ NoSecret(resp)
              /\ IF scribe_id \in DOMAIN scribes
                 THEN /\ resp.status = 200
                      /\ resp.data[1].id = ToString(scribe_id)
                      /\ DOMAIN resp.data[1].attributes
                             = {"username", "email", "bio", "createdAt", "updatedAt"}
                      /\ resp.data[1].attributes.username = scribes[scribe_id].username
                      /\ resp.data[1].attributes.email = scribes[scribe_id].email
                      /\ resp.data[1].attributes.bio = scribes[scribe_id].bio
                 ELSE resp.status = 404
    /\ \A data \in EnlistBodies, salt \in Salts :
          NoSecret(enlist(store, data, now, salt).resp)
    /\ \A auth \in Credentials :
          /\ NoSecret(unlock(store, auth).resp)
          /\ NoSecret(lock(store, auth).resp)
          /\ \A order \in ChronicleOrders(store, require_auth(store, auth).scribe) :
                NoSecret(get_chronicle(store, auth, order).resp)
          /\ \A data \in EntryBodies :
                NoSecret(create_entry(store, auth, data, now).resp)
          /\ \A entry_id \in EntryIdStrings :
                /\ NoSecret(get_entry(store, auth, entry_id).resp)
                /\ NoSecret(delete_entry(store, auth, entry_id).resp)
                /\ \A data \in EntryBodies :
                      NoSecret(update_entry(store, auth, entry_id, data, now).resp)
          /\ \A scribe_id \in ScribeIds :
                /\ NoSecret(delete_scribe(store, auth, scribe_id).resp)
                /\ \A data \in ScribeBodies, salt \in Salts :
                      NoSecret(update_scribe(store, auth, scribe_id, data, now, salt)
                                   .resp)

\* scribe 2 exists without scribe 1 and has a bio: get_scribe answers 200 with
\* the five attributes for 2 and 404 for 1, and the scribe's own password
\* change is answered with its profile
C20_Witness ==
    \E auth \in Credentials, password \in Passwords :
        /\ DOMAIN scribes = {2}
        /\ scribes[2].bio # NULL
        /\ Caller(auth) = 2
        /\ password # auth.password
        /\ get_scribe(store, 2).resp.status = 200
        /\ Cardinality(DOMAIN get_scribe(store, 2).resp.data[1].attributes) = 5
        /\ get_scribe(store, 1).resp.status = 404
        /\ update_scribe(store, auth, 2,
               [email |-> ABSENT, bio |-> ABSENT, password |-> password],
               now, 1).resp.status = 200

(* --------------------------------- C21 ---------------------------------- *)

\* the store after n lock requests in a row with the same credentials
RECURSIVE LockedTimes(_, _, _)
LockedTimes(db, auth, n) ==
    IF n = 0 THEN db ELSE lock(LockedTimes(db, auth, n - 1), auth).db

\* C21: lock with valid credentials returns 204 and with missing or invalid
\* credentials 401; either way every scribe and entry is as before, however
\* many times it is repeated, and after the lock calls the same credentials
\* authenticate as before (unlock returns 200 for the valid ones).
C21_LockHasNoEffect ==
    \A auth \in Credentials, n \in 1..MaxRepeat :
        LET before == LockedTimes(store, auth, n - 1)
            result == lock(before, auth)
        IN  /\ result.resp.status = IF Caller(auth) # 0 THEN 204 ELSE 401
            /\ result.db = store
            /\ unlock(result.db, auth).resp = unlock(store, auth).resp
            /\ unlock(result.db, auth).resp.status
                   = IF Caller(auth) # 0 THEN 200 ELSE 401

\* a scribe owns an entry; its lock is answered 204, a lock with its username
\* and a wrong password 401, and its unlock after the locks 200
C21_Witness ==
    \E auth, wrong \in Credentials :
        /\ Caller(auth) # 0
        /\ EntriesOf(Caller(auth)) # {}
        /\ wrong.username = auth.username
        /\ Caller(wrong) = 0
        /\ lock(store, auth).resp.status = 204
        /\ lock(store, wrong).resp.status = 401
        /\ unlock(LockedTimes(store, auth, MaxRepeat), auth).resp.status = 200

(* --------------------------------- C22 ---------------------------------- *)

\* the required fields the body lacks
MissingFrom(data) == {f \in {"username", "email", "password"} : data[f] = ABSENT}

\* the names of a sequence written out with ", " between them
RECURSIVE WrittenOut(_)
WrittenOut(names) ==
    IF names = <<>> THEN ""
    ELSE IF Len(names) = 1 THEN Head(names)
    ELSE Head(names) \o ", " \o WrittenOut(Tail(names))

\* the texts that name every field of the set, each once, in some order
TextsNaming(fields) ==
    {"The following fields are required: " \o WrittenOut(order) :
        order \in Orderings(fields)}

\* C22: enlist with a body that is not empty and lacks one or more of username,
\* email and password returns 400 with one error whose detail names every
\* missing field and no other, and creates no scribe, whether or not a field
\* that is present collides with an existing scribe.
C22_EveryMissingFieldNamed ==
    \A data \in EnlistBodies, salt \in Salts :
        (~EmptyBody(data) /\ MissingFrom(data) # {}) =>
            LET result == enlist(store, data, now, salt)
            IN  /\ result.resp.status = 400
                /\ result.resp.kind = "errors"
                /\ result.resp.title = "Missing Required Fields"
                /\ result.resp.detail \in TextsNaming(MissingFrom(data))
                /\ result.db = store

\* a scribe exists; an enlist with its username and nothing else is answered
\* 400 naming email and password, not 409
C22_Witness ==
    \E a \in DOMAIN scribes :
        LET data == [username |-> scribes[a].username, email |-> ABSENT,
                     password |-> ABSENT, bio |-> ABSENT]
        IN  /\ enlist(store, data, now, 1).resp.status = 400
            /\ enlist(store, data, now, 1).resp.detail
                   = "The following fields are required: email, password"
            /\ enlist(store, [data EXCEPT !.email = scribes[a].email,
                                          !.password = "pw1"], now, 1).resp.status
                   = 409

(* --------------------------------- C23 ---------------------------------- *)

\* the worker's request registers the username or the email: an enlist with
\* it, or an update_scribe that sets the email
Registers(w, username, email) ==
    \/ requests[w].op = "enlist"
          /\ (requests[w].data.username = username \/ requests[w].data.email = email)
    \/ requests[w].op = "update_scribe" /\ requests[w].data.email = email

\* the worker's request has written its row to the store
Committed(w) ==
    \/ requests[w].pc = "refresh"
    \/ requests[w].pc = "done" /\ requests[w].resp.status \in {200, 201}

\* no request deletes a scribe, so a name once registered stays held
NoDeletion == \A w \in Workers : requests[w].op # "delete_scribe"

\* every column of the row has the value one request gave it
WrittenWhole(i) ==
    /\ scribes[i].username \in Usernames
    /\ scribes[i].email \in Emails
    /\ check_password(scribes[i], last_password[i])
    /\ scribes[i].created_at <= scribes[i].updated_at

\* C23: when enlist requests, or an enlist and an update_scribe, race on the
\* same username or email, at most one of them commits, every loser receives
\* 409, and in no state do two scribes share a username or an email or is a
\* scribe partially written.
C23_ConcurrentRegistrationsSafe ==
    /\ \A i, j \in DOMAIN scribes :
           i # j => /\ scribes[i].username # scribes[j].username
                    /\ scribes[i].email # scribes[j].email
    /\ \A i \in DOMAIN scribes : WrittenWhole(i)
    /\ NoDeletion =>
           \A username \in Usernames, email \in Emails :
               \A w1, w2 \in Workers :
                   (/\ w1 # w2
                    /\ requests[w1].op = "enlist"
                    /\ Registers(w1, username, email)
                    /\ Registers(w2, username, email)) =>
                       /\ ~(Committed(w1) /\ Committed(w2))
                       /\ \A w \in {w1, w2} :
                              (requests[w].pc = "done" /\ ~Committed(w)) =>
                                  /\ requests[w].resp.status = 409
                                  /\ requests[w].resp.kind = "errors"

\* two enlist requests for bob raced: one was answered 201, the other 409, and
\* bob is in the store once
C23_Witness ==
    \E w1, w2 \in Workers :
        /\ requests[w1].op = "enlist" /\ requests[w1].pc = "done"
        /\ requests[w2].op = "enlist" /\ requests[w2].pc = "done"
        /\ requests[w1].resp.status = 201
        /\ requests[w2].resp.status = 409
        /\ Cardinality({i \in DOMAIN scribes : scribes[i].username = "bob"}) = 1

(* --------------------------------- C24 ---------------------------------- *)

Readers == {"get_scribe", "get_entry", "get_chronicle"}

\* what the reader's request is answered when all of it is served from db
Answers(w, db) ==
    LET r == requests[w]
    IN  IF r.op = "get_scribe" THEN {get_scribe(db, r.scribe_id).resp}
        ELSE IF r.op = "get_entry" THEN {get_entry(db, r.auth, r.entry_id).resp}
        ELSE {get_chronicle(db, r.auth, order).resp :
                 order \in ChronicleOrders(db, optional_auth(db, r.auth))}

\* C24: while delete_scribe(A) runs interleaved with get_scribe, get_entry and
\* get_chronicle requests, every reader is answered from a store that has A
\* and all of A's entries or from one that has none of them: no reader sees
\* A's row gone and an entry of A, or A without its entries.
C24_ReadersSeeAllOrNothing ==
    (\A w \in Workers : requests[w].op \in Readers \cup {"idle", "delete_scribe"}) =>
        \A w \in Workers :
            (requests[w].op \in Readers /\ requests[w].pc = "done") =>
                requests[w].resp \in Answers(w, RaceStore)
                                      \cup Answers(w, CascadeDelete(RaceStore, 1))

\* an anonymous get_entry of alice's public entry loaded the entry, alice was
\* deleted with her entries, and the reader, finding no scribe for the entry it
\* holds, was answered 500
C24_Witness ==
    \E w1, w2 \in Workers :
        /\ requests[w1].op = "get_entry" /\ requests[w1].pc = "done"
        /\ requests[w1].entry # <<>>
        /\ requests[w1].resp.status = 500
        /\ requests[w2].op = "delete_scribe"
        /\ requests[w2].resp.status = 204
        /\ store = CascadeDelete(RaceStore, 1)

(* --------------------------------- C27 ---------------------------------- *)

\* the entry a create_entry request of worker w has written and that persists
Created(w) ==
    IF requests[w].op = "create_entry" /\ requests[w].new \in DOMAIN entries
    THEN {requests[w].new}
    ELSE {}

\* C27: when create_entry by scribe A is interleaved with delete_scribe(A),
\* A's credentials verified before the delete and the entry written after, the
\* new entry never persists with a scribe_id that matches no existing scribe.
C27_CreatedEntryHasItsScribe ==
    \A w \in Workers : \A e \in Created(w) : entries[e].scribe_id \in DOMAIN scribes

\* the store does not enforce the foreign key; alice's create_entry was
\* authenticated, alice was deleted (204), and the entry was then written: it
\* persists, owned by a scribe that does not exist
C27_Witness ==
    \E w1, w2 \in Workers :
        /\ ~foreign_keys
        /\ requests[w1].op = "create_entry" /\ requests[w1].pc = "done"
        /\ requests[w2].op = "delete_scribe" /\ requests[w2].resp.status = 204
        /\ requests[w2].kids = DOMAIN RaceStore.entries
        /\ \E e \in Created(w1) : entries[e].scribe_id \notin DOMAIN scribes

(* --------------------------------- C25 ---------------------------------- *)

\* what get_entry and get_chronicle, sent next with the credentials, are
\* answered when the session holds the rows `pending`
LaterAnswers(pending, auth, entry_id) ==
    LET shown == Dirty(store, Autoflush(store, pending, auth, now))
    IN  [entry |-> get_entry(shown, auth, entry_id).resp,
         chronicle |-> {get_chronicle(shown, auth, order).resp :
                           order \in ChronicleOrders(shown, Verified(shown, auth))}]

\* C25: update_entry by the owner with a valid content and a visibility other
\* than public and private returns 400 and leaves the persisted entry's
\* content, visibility and updatedAt unchanged, as every later get_entry and
\* get_chronicle show them.
C25_RejectedUpdateNotSeenLater ==
    \A auth \in SessionCredentials, entry_id \in EntryIdStrings,
       data \in InvalidVisibilityBodies :
        LET flushed == Autoflush(store, session.entries, auth, now)
            shown == Dirty(store, flushed)
            result == update_entry(shown, auth, entry_id, data, now)
            assigned == update_entry_assigned(shown, auth, entry_id, data)
            after == shutdown_session(session, Merged(flushed, assigned))
        IN  (/\ data.content # ABSENT
             /\ Verified(shown, auth) # 0
             /\ GetEntry(shown, entry_id) # 0
             /\ shown.entries[GetEntry(shown, entry_id)].scribe_id
                    = Verified(shown, auth)) =>
                /\ result.resp.status = 400
                /\ result.db = shown
                /\ \A reader \in SessionCredentials \ {NoAuth} :
                       LaterAnswers(after.entries, reader, entry_id)
                           = LaterAnswers(session.entries, reader, entry_id)

\* an application context is held open; alice's update of her entry with a
\* new content and a visibility that is not allowed was answered 400; the
\* stored entry has the old content, and her get_entry is answered the new one
C25_Witness ==
    \E i \in DOMAIN session.entries :
        /\ session.held
        /\ session.entries[i].content # entries[i].content
        /\ LET answer == LaterAnswers(session.entries, AliceAuth, ToString(i)).entry
           IN  /\ answer.status = 200
               /\ answer.data[1].attributes.content = session.entries[i].content
               /\ answer.data[1].attributes.content # entries[i].content

(* --------------------------------- C26 ---------------------------------- *)

\* the email is held by a scribe other than a
HeldByAnother(email, a) ==
    \E i \in DOMAIN scribes : i # a /\ scribes[i].email = email

\* C26: update_scribe by scribe A with an email held by another scribe returns
\* 409 "Email Already Exists" and leaves A's email, bio and password as they
\* were, also when the body gives a new bio or a new password: the old
\* password still authenticates, the new one does not.
C26_RejectedProfileUpdateChangesNothing ==
    \A auth \in Credentials, data \in ScribeBodies, salt \in Salts :
        LET a == Caller(auth)
            result == update_scribe(store, auth, a, data, now, salt)
        IN  (a # 0 /\ HeldByAnother(data.email, a)) =>
                /\ result.resp.status = 409
                /\ result.resp.title = "Email Already Exists"
                /\ result.db = store
                /\ result.db.scribes[a].email = scribes[a].email
                /\ result.db.scribes[a].bio = scribes[a].bio
                /\ unlock(result.db, auth).resp.status = 200
                /\ (data.password \notin {ABSENT, auth.password}) =>
                       unlock(result.db, [auth EXCEPT !.password = data.password])
                           .resp.status = 401

\* alice asks for bob's email together with a new bio and a new password and
\* is answered 409; her old password is still the one that unlocks
C26_Witness ==
    \E auth \in Credentials, data \in ScribeBodies :
        LET a == Caller(auth)
            result == update_scribe(store, auth, a, data, now, 1)
        IN  /\ a # 0
            /\ HeldByAnother(data.email, a)
            /\ data.bio \notin {ABSENT, scribes[a].bio}
            /\ data.password \notin {ABSENT, auth.password}
            /\ result.resp.status = 409
            /\ unlock(result.db, auth).resp.status = 200
            /\ unlock(result.db, [auth EXCEPT !.password = data.password]).resp.status
                   = 401

(* --------------------------------- C28 ---------------------------------- *)

\* enlist bodies with username, email and password
CompleteBodies ==
    {data \in EnlistBodies :
        data.username # ABSENT /\ data.email \notin {ABSENT, NULL}
            /\ data.password # ABSENT}

\* C28: enlist with a username or an email returns 409 for as long as an
\* existing scribe holds it; after a successful delete_scribe of the holder an
\* enlist with the same username or email succeeds with 201, and the deleted
\* scribe's credentials then authenticate only if they match the new scribe's
\* password.
C28_UniquenessOverExistingScribes ==
    /\ \A data \in CompleteBodies, salt \in Salts :
           (UsernameTaken(data.username) \/ EmailTaken(data.email)) =>
               enlist(store, data, now, salt).resp.status = 409
    /\ \A auth \in Credentials, data \in CompleteBodies, salt \in Salts :
           LET a == Caller(auth)
               deleted == delete_scribe(store, auth, a)
               again == enlist(deleted.db, data, now, salt)
           IN  (/\ a # 0
                /\ data.username = scribes[a].username \/ data.email = scribes[a].email
                /\ \A i \in DOMAIN scribes \ {a} :
                       /\ scribes[i].username # data.username
                       /\ scribes[i].email # data.email) =>
                   /\ deleted.resp.status = 204
                   /\ again.resp.status = 201
                   /\ unlock(again.db, auth).resp.status
                          = IF data.username = auth.username
                               /\ data.password = auth.password
                            THEN 200 ELSE 401

\* alice is deleted and her username enlisted again with another password: her
\* old credentials are answered 401, and an enlist with her username was
\* answered 409 while she existed
C28_Witness ==
    \E auth \in Credentials, data \in CompleteBodies :
        LET a == Caller(auth)
            deleted == delete_scribe(store, auth, a)
            again == enlist(deleted.db, data, now, 1)
        IN  /\ a # 0
            /\ data.username = auth.username
            /\ data.password # auth.password
            /\ enlist(store, data, now, 1).resp.status = 409
            /\ deleted.resp.status = 204
            /\ again.resp.status = 201
            /\ unlock(again.db, auth).resp.status = 401
            /\ unlock(again.db, [auth EXCEPT !.password = data.password]).resp.status
                   = 200

(* --------------------------------- C29 ---------------------------------- *)

\* a profile body that also carries a username field
WithUsername(data, username) ==
    [username |-> username, email |-> data.email, bio |-> data.bio,
     password |-> data.password]

\* the value a field has after a PATCH: the body's when present, else the old
Patched(given, old) == IF given # ABSENT THEN given ELSE old

\* every row but row id is the same in both tables
SameBut(table, before, id) ==
    /\ DOMAIN table = DOMAIN before
    /\ \A i \in DOMAIN before \ {id} : table[i] = before[i]

Refusals == {400, 401, 403, 404, 409}

\* the request left every scribe and entry, and every field of them, as it was
Untouched(result) ==
    /\ result.db.scribes = scribes
    /\ result.db.entries = entries

\* the request was refused and left the store as it was, or was not refused
RefusedUntouched(result) ==
    result.resp.status \in Refusals => Untouched(result)

====
